---- MODULE Spec2Model ----
(***************************************************************************)
(* Model of the uniform-document generator (leonardocandio/cargos):        *)
(* the occupation catalog and price lookup (models.py), the spreadsheet    *)
(* parser (services.py, ExcelService) and the generation orchestrator      *)
(* (services.py, FileGenerationService).                                   *)
(*                                                                         *)
(* Strings whose letter case, surrounding blanks or substrings matter are  *)
(* sequences of one-character strings, so that upper(), lower(), strip()   *)
(* and the `in` substring test are computed, not assumed.                  *)
(***************************************************************************)
EXTENDS Integers, Sequences, FiniteSets, TLC

VARIABLES
    op,          \* name of the last operation that ran
    catalog,     \* UnifiedConfig.occupations
    priceCall,   \* the last get_price call: arguments and returned value
    lastEdit,    \* the last price-point edit
    edits,       \* number of price-point edits so far
    resolveCall, \* the last get_occupation call: label and returned entry
    prevResolve, \* the get_occupation call before it
    workbook,    \* the grids of the sheets of the Excel file last loaded
    excel_data,  \* ExcelData.worksheets: the parsing result of every sheet
    loadCall,    \* the last load_excel_file call: the file and how it ended
    contextCall, \* the last _build_person_contexts call and what it returned
    disk,        \* the file system: the destination path and what is below it
    genResult,   \* the GenerationResult of the last generate_files call
    genCall,     \* the arguments and the environment of that call
    genGroups,   \* tienda_to_rows of that call: the locale groups it built
    prevGen,     \* the generate_files call before it and the disk it left
    today,       \* the day of the system clock
    runs,        \* number of generate_files calls so far
    workers,     \* the workers generating into the destination, each with
                 \* its plan and its position in it
    validateCall \* the last validate_excel_data call and how it ended

priceVars == <<catalog, priceCall, lastEdit, edits, resolveCall, prevResolve>>

docVars == <<workbook, excel_data, loadCall, contextCall, disk, genResult, genCall,
             genGroups, prevGen, today, runs, workers, validateCall>>

vars == <<op, priceVars, docVars>>

----------------------------------------------------------------------------
(* Bounds of the model *)

MaxOccupations == 2
MaxEdits == 2
MaxParseRows == 3
MaxContextRows == 2
MaxSheets == 2
MaxRuns == 1
MaxLoadSheets == 2
MaxRepeats == 2
MaxDays == 2
MaxWorkers == 2

----------------------------------------------------------------------------
(* Python str helpers *)

Lowers == <<"a","b","c","d","e","f","g","h","i","j","k","l","m",
            "n","o","p","q","r","s","t","u","v","w","x","y","z">>
Uppers == <<"A","B","C","D","E","F","G","H","I","J","K","L","M",
            "N","O","P","Q","R","S","T","U","V","W","X","Y","Z">>

LowerSet == {Lowers[i] : i \in DOMAIN Lowers}
UpperSet == {Uppers[i] : i \in DOMAIN Uppers}
UpperOf == [c \in LowerSet |-> Uppers[CHOOSE i \in DOMAIN Lowers : Lowers[i] = c]]
LowerOf == [c \in UpperSet |-> Lowers[CHOOSE i \in DOMAIN Uppers : Uppers[i] = c]]

UpperChar(c) == IF c \in LowerSet THEN UpperOf[c] ELSE c

LowerChar(c) == IF c \in UpperSet THEN LowerOf[c] ELSE c

\* str.upper()
Upper(s) == [i \in 1..Len(s) |-> UpperChar(s[i])]

\* str.lower()
Lower(s) == [i \in 1..Len(s) |-> LowerChar(s[i])]

IsSpace(c) == c = " "

\* str.strip(): leading and trailing whitespace removed
Strip(s) ==
    IF \A i \in 1..Len(s) : IsSpace(s[i])
    THEN <<>>
    ELSE LET a == CHOOSE i \in 1..Len(s) :
                     ~IsSpace(s[i]) /\ \A j \in 1..(i - 1) : IsSpace(s[j])
             b == CHOOSE i \in 1..Len(s) :
                     ~IsSpace(s[i]) /\ \A j \in (i + 1)..Len(s) : IsSpace(s[j])
         IN  SubSeq(s, a, b)

\* needle in hay (substring test; also used for word sequences)
Contains(needle, hay) ==
    \E i \in 1..(Len(hay) - Len(needle) + 1) :
        SubSeq(hay, i, i + Len(needle) - 1) = needle

\* x in [list]
InList(x, list) == \E i \in DOMAIN list : list[i] = x

----------------------------------------------------------------------------
(* String literals *)

sEmpty == <<>>
sMOZO == <<"M","O","Z","O">>
sMozoLower == <<"m","o","z","o">>
sPACKER == <<"P","A","C","K","E","R">>
sPackerMixed == <<"P","a","c","k","e","r">>
sPKR == <<"P","K","R">>
sPkrLower == <<"p","k","r">>
sPkrPadded == <<" ","p","k","r"," ">>
sPACK == <<"P","A","C","K">>
sXYZ == <<"X","Y","Z">>

sCAMISA == <<"C","A","M","I","S","A">>
sCamisaLower == <<"c","a","m","i","s","a">>
sGORRA == <<"G","O","R","R","A">>
sBLUSA == <<"B","L","U","S","A">>

sS == <<"S">>
sM == <<"M">>
sL == <<"L">>
sSML == <<"S","M","L">>
sXL == <<"X","L">>
sXlLower == <<"x","l">>
sXXL == <<"X","X","L">>
sXS == <<"X","S">>

sTARAPOTO == <<"T","A","R","A","P","O","T","O">>
sTarapoto2 == <<"T","a","r","a","p","o","t","o"," ","2">>
sSAN_ISIDRO == <<"S","A","N","_","I","S","I","D","R","O">>
sSanIsidro == <<"S","a","n"," ","I","s","i","d","r","o">>
sLIMA == <<"L","I","M","A">>

----------------------------------------------------------------------------
(* The occupation catalog: models.py, OccupationPrenda / Occupation /      *)
(* UnifiedConfig                                                           *)

SizeGroups == {"sml", "xl", "xxl"}
LocalGroups == {"other", "tarapoto", "san_isidro"}

\* OccupationPrenda: the garment type and its nine price points, as a
\* function from <<size group, local group>> (the attribute
\* price_<size>_<local>); every price point defaults to 0.0.
OccupationPrenda(prenda_type, price) ==
    [prenda_type |-> prenda_type, price |-> price]

\* The dataclass defaults: every price point 0.0
DefaultPrices == [p \in SizeGroups \X LocalGroups |-> 0]

Occupation(name, synonyms, prendas) ==
    [name |-> name, synonyms |-> synonyms, prendas |-> prendas]

\* "no occupation" (Python None), comparable with the occupation records
NoOccupation == [name |-> <<"None">>, synonyms |-> <<>>, prendas |-> <<>>]

\* UnifiedConfig._determine_local_group
DetermineLocalGroup(local) ==
    LET local_upper == Strip(Upper(local))
    IN  IF local_upper = sTARAPOTO \/ Contains(sTARAPOTO, local_upper)
        THEN "tarapoto"
        ELSE IF \/ InList(local_upper, <<Upper(sSanIsidro), sSAN_ISIDRO>>)
                \/ Contains(Upper(sSanIsidro), local_upper)
                \/ Contains(sSAN_ISIDRO, local_upper)
        THEN "san_isidro"
        ELSE "other"

\* The index of the first occupation the loop of get_occupation accepts, 0
\* when the loop ends without a match.
FirstMatch(occupations, name_upper) ==
    LET hits == {i \in DOMAIN occupations :
                    \/ Upper(occupations[i].name) = name_upper
                    \/ InList(name_upper,
                              [k \in DOMAIN occupations[i].synonyms |->
                                  Upper(occupations[i].synonyms[k])])}
    IN  IF hits = {} THEN 0
        ELSE CHOOSE i \in hits : \A j \in hits : i <= j

\* get_occupation falling back to the first occupation instead of None
GetOccupation_Default(occupations, name) ==
    LET name_upper == Strip(Upper(name))
        i == FirstMatch(occupations, name_upper)
    IN  IF i = 0 THEN occupations[1] ELSE occupations[i]

\* get_occupation comparing the label as typed (no upper())
GetOccupation_CaseSensitive(occupations, name) ==
    LET i == FirstMatch(occupations, Strip(name))
    IN  IF i = 0 THEN NoOccupation ELSE occupations[i]

\* UnifiedConfig.get_occupation
GetOccupation(occupations, name) ==
    LET name_upper == Strip(Upper(name))
        i == FirstMatch(occupations, name_upper)
    IN  IF i = 0 THEN NoOccupation ELSE occupations[i]

\* A variant that prices every size as S/M/L
SizeGroup_AlwaysSml(size) == "sml"

\* A variant that prices XXL as XL
SizeGroup_XxlAsXl(size) ==
    IF InList(size, <<sS, sM, sL, sSML>>) THEN "sml"
    ELSE IF size = sXL \/ size = sXXL THEN "xl"
    ELSE "sml"

\* The size group get_price derives from the (already upper-cased, stripped)
\* size
SizeGroup(size) ==
    IF InList(size, <<sS, sM, sL, sSML>>) THEN "sml"
    ELSE IF size = sXL THEN "xl"
    ELSE IF size = sXXL THEN "xxl"
    ELSE "sml"

\* The first garment entry of the occupation whose type matches, 0 if none
FirstPrenda(prendas, prenda_type) ==
    LET hits == {i \in DOMAIN prendas : Upper(prendas[i].prenda_type) = prenda_type}
    IN  IF hits = {} THEN 0
        ELSE CHOOSE i \in hits : \A j \in hits : i <= j

\* get_price answering a repeated question from the previous answer
GetPrice_Cached(occupations, prenda_type0, size0, cargo0, local0) ==
    IF priceCall.valid /\ priceCall.args = <<prenda_type0, size0, cargo0, local0>>
    THEN priceCall.result
    ELSE LET occupation == GetOccupation(occupations, Strip(Upper(cargo0)))
             k == FirstPrenda(occupation.prendas, Strip(Upper(prenda_type0)))
         IN  IF occupation = NoOccupation \/ k = 0 THEN 0
             ELSE occupation.prendas[k].price[<<SizeGroup(Strip(Upper(size0))),
                                                DetermineLocalGroup(Strip(Upper(local0)))>>]

\* UnifiedConfig.get_price
GetPrice(occupations, prenda_type0, size0, cargo0, local0) ==
    LET prenda_type == Strip(Upper(prenda_type0))
        size == Strip(Upper(size0))
        cargo == Strip(Upper(cargo0))
        local == Strip(Upper(local0))
        occupation == GetOccupation(occupations, cargo)
    IN  IF occupation = NoOccupation THEN 0
        ELSE LET k == FirstPrenda(occupation.prendas, prenda_type)
             IN  IF k = 0 THEN 0
                 ELSE occupation.prendas[k].price[<<SizeGroup(size),
                                                    DetermineLocalGroup(local)>>]


----------------------------------------------------------------------------
(* The spreadsheet parser: constants.py and services.py, ExcelService      *)

METADATA_ROW_FECHA_SOLICITUD == 2
METADATA_COL_FECHA_SOLICITUD == 2
METADATA_ROW_TIENDA == 3
METADATA_COL_TIENDA == 2
METADATA_ROW_ADMINISTRADOR == 4
METADATA_COL_ADMINISTRADOR == 2
DATA_START_ROW == 6
IGNORE_COLUMN_INDEX == 0
MAIN_DATA_END_COLUMN == 8
UNIFORM_DATA_START_ROW == 7
UNIFORM_DATA_START_COLUMN == 9
UNIFORM_DATA_END_COLUMN == 17

scamisa == <<"c","a","m","i","s","a">>
sblusa == <<"b","l","u","s","a">>
smandilon == <<"m","a","n","d","i","l","o","n">>
sandarin == <<"a","n","d","a","r","i","n">>
sdeliverypolo == <<"d","e","l","i","v","e","r","y","p","o","l","o">>
sdeliverycasaca == <<"d","e","l","i","v","e","r","y","c","a","s","a","c","a">>
sdeliverygorro == <<"d","e","l","i","v","e","r","y","g","o","r","r","o">>
spackergorra == <<"p","a","c","k","e","r","g","o","r","r","a">>
spackerpolo == <<"p","a","c","k","e","r","p","o","l","o">>

UNIFORM_COLUMN_NAMES ==
    <<scamisa, sblusa, smandilon, sandarin, sdeliverypolo, sdeliverycasaca,
      sdeliverygorro, spackergorra, spackerpolo>>

\* An empty cell (pandas NaN); every other cell is the string of its value
NaN == <<"NaN">>

\* pd.notna
NotNa(v) == v # NaN

\* str(value) of a cell or column label
Str(v) == IF v = NaN THEN <<"n","a","n">> ELSE v

Min(a, b) == IF a <= b THEN a ELSE b

\* sheet_data.iloc[r, c] of the grid read with header=None
Cell(sd, r, c) == IF <<r, c>> \in DOMAIN sd.cells THEN sd.cells[<<r, c>>] ELSE NaN

\* A message: the words of its format string and the numbers put into it
Msg(fmt, values) == [fmt |-> fmt, values |-> values]

MsgMissingDni(n) == Msg(<<"{}", "rows", "with", "data", "are", "missing", "DNI">>, <<n>>)
MsgNoDniColumn ==
    Msg(<<"No", "DNI", "column", "found", "-", "cannot", "validate", "DNI",
          "completeness">>, <<>>)
MsgFewerRows(n, m) ==
    Msg(<<"Uniform", "data", "has", "fewer", "rows", "({})", "than", "main",
          "data", "({})">>, <<n, m>>)
MsgUniformColumns(n, m) ==
    Msg(<<"Uniform", "data", "has", "{}", "columns,", "expected", "{}">>, <<n, m>>)
MsgInsufficientUniform ==
    Msg(<<"Insufficient", "data", "for", "uniform", "columns", "(J-R)">>, <<>>)
MsgInsufficientRows(n) ==
    Msg(<<"Sheet", "has", "insufficient", "rows", "(less", "than", "{})">>, <<n>>)
MsgErrorExtractingData == Msg(<<"Error", "extracting", "data:", "{}">>, <<>>)
MsgMissingFecha == Msg(<<"Missing", "fecha_solicitud", "(C3)">>, <<>>)
MsgMissingTienda == Msg(<<"Missing", "tienda", "(C4)">>, <<>>)
MsgMissingAdministrador == Msg(<<"Missing", "administrador", "(C5)">>, <<>>)

\* A DataFrame: its column labels and its rows; a row carries its index
\* label (row.name), its cells and the spreadsheet row it was read from.
\* None is a frame with isNone set.
NoFrame == [isNone |-> TRUE, columns |-> <<>>, rows |-> <<>>]
Frame(columns, rows) == [isNone |-> FALSE, columns |-> columns, rows |-> rows]

\* sheet_data.iloc[first:, c0:c1 + 1]: column slices stop at the grid's width
SliceWidth(sd, c0, c1) ==
    IF Min(c1, sd.ncols - 1) >= c0 THEN Min(c1, sd.ncols - 1) - c0 + 1 ELSE 0

SliceRows(sd, first, c0, c1) ==
    [i \in 1..(IF sd.nrows > first THEN sd.nrows - first ELSE 0) |->
        [name |-> first + i - 1,
         src |-> first + i - 1,
         cells |-> [j \in 1..SliceWidth(sd, c0, c1) |->
                       Cell(sd, first + i - 1, c0 + j - 1)]]]

NotAllNa(row) == \E j \in DOMAIN row.cells : NotNa(row.cells[j])

\* DataFrame.dropna(how='all')
DropNaAll(rows) == SelectSeq(rows, NotAllNa)

\* DataFrame.reset_index(drop=True)
ResetIndex(rows) == [i \in DOMAIN rows |-> [rows[i] EXCEPT !.name = i - 1]]

sdni == <<"d","n","i">>

\* The position of the first column whose label contains "dni", 0 if none
DniColumn(headers) ==
    LET hits == {j \in DOMAIN headers : Contains(sdni, Lower(Str(headers[j])))}
    IN  IF hits = {} THEN 0 ELSE CHOOSE j \in hits : \A k \in hits : j <= k

\* the metadata cell as a string, "" when the sheet is too small or the
\* cell is empty
MetadataCell(sd, r, c) ==
    IF sd.nrows > r /\ sd.ncols > c /\ NotNa(Cell(sd, r, c))
    THEN Cell(sd, r, c) ELSE <<>>

\* A variant that reports the first missing value only
MetadataWarnings_FirstOnly(metadata) ==
    IF metadata.fecha_solicitud = <<>> THEN <<MsgMissingFecha>>
    ELSE IF metadata.tienda = <<>> THEN <<MsgMissingTienda>>
    ELSE IF metadata.administrador = <<>> THEN <<MsgMissingAdministrador>>
    ELSE <<>>

\* the missing-metadata warnings of _parse_worksheet
MetadataWarnings(metadata) ==
    (IF metadata.fecha_solicitud = <<>> THEN <<MsgMissingFecha>> ELSE <<>>)
    \o (IF metadata.tienda = <<>> THEN <<MsgMissingTienda>> ELSE <<>>)
    \o (IF metadata.administrador = <<>> THEN <<MsgMissingAdministrador>> ELSE <<>>)

\* A variant that keeps the garment table whole whatever the length of the
\* person table
TakeUniformRows_Whole(uniform_rows, n) == uniform_rows

\* The garment table kept for a person table of n rows: the first n rows
\* when there are at least n, all of them otherwise
TakeUniformRows(uniform_rows, n) ==
    IF Len(uniform_rows) >= n THEN SubSeq(uniform_rows, 1, n) ELSE uniform_rows

\* ExcelService._parse_worksheet
ParseWorksheet(sd) ==
    LET metadata ==
            [sheet_name |-> sd.sheet_name,
             fecha_solicitud |-> MetadataCell(sd, METADATA_ROW_FECHA_SOLICITUD,
                                              METADATA_COL_FECHA_SOLICITUD),
             tienda |-> MetadataCell(sd, METADATA_ROW_TIENDA, METADATA_COL_TIENDA),
             administrador |-> MetadataCell(sd, METADATA_ROW_ADMINISTRADOR,
                                            METADATA_COL_ADMINISTRADOR)]
        width == SliceWidth(sd, IGNORE_COLUMN_INDEX + 1, MAIN_DATA_END_COLUMN)
        headers == [j \in 1..width |->
                       Cell(sd, DATA_START_ROW, IGNORE_COLUMN_INDEX + j)]
        main == DropNaAll(SliceRows(sd, DATA_START_ROW + 1, IGNORE_COLUMN_INDEX + 1,
                                    MAIN_DATA_END_COLUMN))
        dni == DniColumn(headers)
        \* two columns labelled like the DNI column: the selection is a
        \* frame, its count a Series, and "if count > 0" raises
        dniAmbiguous ==
            dni # 0 /\ \E j \in DOMAIN headers : j # dni /\ headers[j] = headers[dni]
        missing == Cardinality({i \in DOMAIN main : ~NotNa(main[i].cells[dni])})
        dniErrors == IF dni # 0 /\ missing > 0 THEN <<MsgMissingDni(missing)>> ELSE <<>>
        dniWarnings == IF dni = 0 THEN <<MsgNoDniColumn>> ELSE <<>>
        hasUniform == /\ sd.nrows > UNIFORM_DATA_START_ROW
                      /\ sd.ncols > UNIFORM_DATA_END_COLUMN
        uwidth == SliceWidth(sd, UNIFORM_DATA_START_COLUMN, UNIFORM_DATA_END_COLUMN)
        uniform == DropNaAll(SliceRows(sd, UNIFORM_DATA_START_ROW,
                                       UNIFORM_DATA_START_COLUMN,
                                       UNIFORM_DATA_END_COLUMN))
        aligned == hasUniform /\ uwidth = Len(UNIFORM_COLUMN_NAMES)
        uniformWarnings ==
            IF ~hasUniform THEN <<MsgInsufficientUniform>>
            ELSE IF ~aligned
            THEN <<MsgUniformColumns(uwidth, Len(UNIFORM_COLUMN_NAMES))>>
            ELSE IF Len(uniform) >= Len(main) THEN <<>>
            ELSE <<MsgFewerRows(Len(uniform), Len(main))>>
        data == IF aligned THEN ResetIndex(main) ELSE main
    IN  IF sd.nrows <= DATA_START_ROW
        THEN [metadata |-> metadata, data |-> NoFrame, uniform_data |-> NoFrame,
              total_lines |-> 0, people_parsed |-> 0, errors |-> <<>>,
              warnings |-> <<MsgInsufficientRows(DATA_START_ROW + 1)>>
                           \o MetadataWarnings(metadata)]
        ELSE IF dniAmbiguous
        THEN [metadata |-> metadata, data |-> NoFrame, uniform_data |-> NoFrame,
              total_lines |-> 0, people_parsed |-> 0,
              errors |-> <<MsgErrorExtractingData>>,
              warnings |-> MetadataWarnings(metadata)]
        ELSE [metadata |-> metadata,
              data |-> Frame(headers, data),
              uniform_data |->
                  IF aligned
                  THEN Frame(UNIFORM_COLUMN_NAMES,
                             TakeUniformRows(ResetIndex(uniform), Len(main)))
                  ELSE NoFrame,
              total_lines |-> sd.nrows,
              people_parsed |-> Len(main),
              errors |-> dniErrors,
              warnings |-> dniWarnings \o uniformWarnings
                           \o MetadataWarnings(metadata)]

MsgCriticalError ==
    Msg(<<"Critical", "error", "parsing", "worksheet:", "{}">>, <<>>)
MsgErrorLoading(exception) ==
    Msg(<<"Error", "loading", "Excel", "file:", "{}">>, <<exception>>)
MsgFilePathEmpty == Msg(<<"File", "path", "is", "empty">>, <<>>)
MsgFileDoesNotExist == Msg(<<"File", "does", "not", "exist:", "{}">>, <<>>)
MsgCannotOpen == Msg(<<"pd.ExcelFile", "raised">>, <<>>)

\* A sheet of an opened file: the grid pd.read_excel gives, or readable
\* unset when pd.read_excel raises for the sheet
FileSheet(readable, grid) == [readable |-> readable, grid |-> grid]

\* A file on the way to load_excel_file: its path, whether it exists,
\* whether pd.ExcelFile opens it, and its sheets
ExcelFile(file_path, exists, opens, sheets) ==
    [file_path |-> file_path, exists |-> exists, opens |-> opens, sheets |-> sheets]

\* _parse_worksheet of a sheet of the file: the outer handler turns a
\* failing read into a result with the one error
ParseFileSheet(sheet) ==
    IF sheet.readable THEN ParseWorksheet(sheet.grid)
    ELSE [metadata |-> [sheet_name |-> sheet.grid.sheet_name,
                        fecha_solicitud |-> <<>>, tienda |-> <<>>,
                        administrador |-> <<>>],
          data |-> NoFrame, uniform_data |-> NoFrame,
          total_lines |-> 0, people_parsed |-> 0,
          errors |-> <<MsgCriticalError>>, warnings |-> <<>>]

\* A variant of the loop that stops at the first sheet whose result has
\* no person table and an error
ParseSheetsOf_StopAtFailure(sheets) ==
    LET failed == {i \in DOMAIN sheets :
                      /\ ParseFileSheet(sheets[i]).data.isNone
                      /\ ParseFileSheet(sheets[i]).errors # <<>>}
        stop == IF failed = {} THEN Len(sheets)
                ELSE (CHOOSE i \in failed : \A j \in failed : i <= j) - 1
    IN  [i \in 1..stop |-> ParseFileSheet(sheets[i])]

\* The loop of load_excel_file over sheet_names
ParseSheetsOf(sheets) == [i \in DOMAIN sheets |-> ParseFileSheet(sheets[i])]

\* ExcelService.load_excel_file: the exception it raises or the worksheets
\* of the ExcelData it returns
LoadResult(file) ==
    IF file.file_path = <<>>
    THEN [raised |-> TRUE, message |-> MsgErrorLoading(MsgFilePathEmpty),
          worksheets |-> <<>>]
    ELSE IF ~file.exists
    THEN [raised |-> TRUE, message |-> MsgErrorLoading(MsgFileDoesNotExist),
          worksheets |-> <<>>]
    ELSE IF ~file.opens
    THEN [raised |-> TRUE, message |-> MsgErrorLoading(MsgCannotOpen),
          worksheets |-> <<>>]
    ELSE [raised |-> FALSE, message |-> Msg(<<>>, <<>>),
          worksheets |-> ParseSheetsOf(file.sheets)]

----------------------------------------------------------------------------
(* Row lookups and document contexts: services.py, FileGenerationService   *)

\* Python None where a string or a cell is expected
None == <<"None">>

\* x or y
OrElse(x, y) == IF x = None \/ x = <<>> THEN y ELSE x

\* The elements of a finite set of integers in increasing order
SortedSeq(S) ==
    [i \in 1..Cardinality(S) |->
        CHOOSE x \in S : Cardinality({y \in S : y < x}) = i - 1]

\* The first entry of a sequence that is not None, None if there is none
FirstSome(candidates) ==
    LET hits == {i \in DOMAIN candidates : candidates[i] # None}
    IN  IF hits = {} THEN None
        ELSE candidates[CHOOSE i \in hits : \A j \in hits : i <= j]

\* A row (pd.Series) of a frame: the frame's column labels with the row
RowOf(frame, i) ==
    [index |-> frame.columns, cells |-> frame.rows[i].cells,
     name |-> frame.rows[i].name]

NoRow == [index |-> <<>>, cells |-> <<>>, name |-> -1]

\* lowered = {str(k).lower(): k for k in row.index}: the keys in the order
\* of their first occurrence
LoweredKeys(row) ==
    LET first == {j \in DOMAIN row.index :
                    \A i \in 1..(j - 1) :
                        Lower(Str(row.index[i])) # Lower(Str(row.index[j]))}
        order == SortedSeq(first)
    IN  [a \in DOMAIN order |-> Lower(Str(row.index[order[a]]))]

\* lowered[key]: the label of the last column with that lower-cased name
LoweredLabel(row, key) ==
    LET same == {j \in DOMAIN row.index : Lower(Str(row.index[j])) = key}
    IN  row.index[CHOOSE j \in same : \A i \in same : i <= j]

\* row[label]; of several columns with the label, the first one
\* (the isinstance(val, pd.Series) branch)
RowGet(row, label) ==
    LET same == {j \in DOMAIN row.index : row.index[j] = label}
    IN  row.cells[CHOOSE j \in same : \A i \in same : j <= i]

\* The stripped string of a cell if the cell is neither empty nor blank
NonBlank(val) ==
    IF NotNa(val) /\ Strip(Str(val)) # <<>> THEN Strip(Str(val)) ELSE None

\* FileGenerationService._find_in_row
FindInRow(row, keys) ==
    LET lowered == LoweredKeys(row)
        exact == [n \in DOMAIN keys |->
                    IF InList(Lower(keys[n]), lowered)
                    THEN NonBlank(RowGet(row, LoweredLabel(row, Lower(keys[n]))))
                    ELSE None]
        nk == Len(keys)
        partial == [x \in 1..(Len(lowered) * nk) |->
                      LET a == ((x - 1) \div nk) + 1
                          n == ((x - 1) % nk) + 1
                      IN  IF Contains(Lower(keys[n]), lowered[a])
                          THEN NonBlank(RowGet(row, LoweredLabel(row, lowered[a])))
                          ELSE None]
    IN  FirstSome(exact \o partial)

snombre == <<"n","o","m","b","r","e">>
sapellido == <<"a","p","e","l","l","i","d","o">>
sname == <<"n","a","m","e">>
slast == <<"l","a","s","t">>
scargo == <<"c","a","r","g","o">>
stalla == <<"t","a","l","l","a">>
ssize == <<"s","i","z","e">>
sSpace == <<" ">>

IsCombinedNameKey(key) == Contains(snombre, key) /\ Contains(sapellido, key)
IsFirstNameKey(key) == Contains(snombre, key) \/ Contains(sname, key)
IsLastNameKey(key) == Contains(sapellido, key) \/ Contains(slast, key)

\* The test one of the loops of _extract_name applies to a key
KeyTest(part, key) ==
    CASE part = "combined" -> IsCombinedNameKey(key)
      [] part = "first" -> IsFirstNameKey(key)
      [] part = "last" -> IsLastNameKey(key)

\* The value _extract_name reads for the first key (in dict order) that
\* passes the test of the part, None if no key passes
FirstKeyValue(row, part) ==
    LET lowered == LoweredKeys(row)
        hits == {a \in DOMAIN lowered : KeyTest(part, lowered[a])}
    IN  IF hits = {} THEN None
        ELSE RowGet(row, LoweredLabel(row,
                 lowered[CHOOSE a \in hits : \A b \in hits : a <= b]))

\* FileGenerationService._extract_name
ExtractName(row) ==
    LET combined == FirstKeyValue(row, "combined")
        first == FirstKeyValue(row, "first")
        last == FirstKeyValue(row, "last")
        name1 == IF first # None /\ NotNa(first) THEN Strip(Str(first)) ELSE <<>>
    IN  IF combined # None /\ NotNa(combined) /\ Strip(Str(combined)) # <<>>
        THEN Strip(Str(combined))
        ELSE IF last # None /\ NotNa(last)
             THEN Strip(name1 \o sSpace \o Strip(Str(last)))
             ELSE name1

\* FileGenerationService._extract_common_person_data
ExtractCommonPersonData(row) ==
    [cargo |-> OrElse(FindInRow(row, <<scargo>>), <<>>),
     nombre |-> OrElse(FindInRow(row, <<snombre>>), ExtractName(row)),
     identificacion |-> OrElse(FindInRow(row, <<sdni>>), <<>>)]

\* FileGenerationService._extract_talla_superior
ExtractTallaSuperior(row) ==
    Upper(Strip(OrElse(
        FindInRow(row, <<stalla \o sSpace \o <<"p","r","e","n","d","a">> \o sSpace
                           \o <<"s","u","p","e","r","i","o","r">>,
                         stalla, ssize,
                         stalla \o <<"_">> \o <<"s","u","p","e","r","i","o","r">> >>),
        <<>>)))

Digits == <<"0","1","2","3","4","5","6","7","8","9">>
IsDigit(c) == \E d \in DOMAIN Digits : Digits[d] = c
DigitValue(c) == (CHOOSE d \in DOMAIN Digits : Digits[d] = c) - 1

RECURSIVE DigitsValue(_)
DigitsValue(ds) ==
    IF ds = <<>> THEN 0
    ELSE 10 * DigitsValue(SubSeq(ds, 1, Len(ds) - 1)) + DigitValue(ds[Len(ds)])

\* The text is a decimal number float() accepts: digits with an optional
\* sign and an optional fraction
IsNumber(text) ==
    LET body == IF text # <<>> /\ text[1] = "-" THEN Tail(text) ELSE text
        dots == {i \in DOMAIN body : body[i] = "."}
    IN  /\ body # <<>>
        /\ Cardinality(dots) <= 1
        /\ \A i \in DOMAIN body : IsDigit(body[i]) \/ body[i] = "."
        /\ \E i \in DOMAIN body : IsDigit(body[i])

\* int(float(text)) of such a text: the fraction is cut off
IntOfFloat(text) ==
    LET neg == text[1] = "-"
        body == IF neg THEN Tail(text) ELSE text
        dots == {i \in DOMAIN body : body[i] = "."}
        whole == IF dots = {} THEN body
                 ELSE SubSeq(body, 1, (CHOOSE i \in dots : TRUE) - 1)
    IN  IF neg THEN 0 - DigitsValue(whole) ELSE DigitsValue(whole)

StartsWith(text, prefix) ==
    Len(text) >= Len(prefix) /\ SubSeq(text, 1, Len(prefix)) = prefix

\* str.replace(old, ""): every occurrence of old removed, left to right
RECURSIVE RemoveAll(_, _)
RemoveAll(text, old) ==
    IF text = <<>> THEN <<>>
    ELSE IF StartsWith(text, old)
    THEN RemoveAll(SubSeq(text, Len(old) + 1, Len(text)), old)
    ELSE <<text[1]>> \o RemoveAll(Tail(text), old)

sDELIVERY == <<"D","E","L","I","V","E","R","Y">>
sTALLA == <<" ","T","A","L","L","A"," ">>
sANDARIN == <<"A","N","D","A","R","I","N">>
sMANDILON == <<"M","A","N","D","I","L","O","N">>

\* The display label of a garment key
DisplayName(clean_name) ==
    IF StartsWith(clean_name, sPACKER) THEN Strip(RemoveAll(clean_name, sPACKER))
    ELSE IF StartsWith(clean_name, sDELIVERY)
    THEN Strip(RemoveAll(clean_name, sDELIVERY))
    ELSE clean_name

\* prenda_string of one garment
PrendaString(display_name, talla_superior) ==
    IF display_name \in {sANDARIN, sMANDILON, sGORRA} THEN display_name
    ELSE display_name \o sTALLA \o talla_superior

\* The quantity cell _build_prendas_list reads for a garment key
QtyValue(row, prenda_name) ==
    IF InList(prenda_name, row.index) THEN RowGet(row, prenda_name)
    ELSE FindInRow(row, <<prenda_name>>)

\* The cell holds a quantity greater than 0
IsPositiveQty(qty_value) ==
    /\ qty_value # None
    /\ NotNa(qty_value)
    /\ Strip(Str(qty_value)) \notin {<<>>, <<"n","a","n">>, <<"N","a","N">>, <<"0">>}
    /\ IsNumber(Strip(Str(qty_value)))
    /\ IntOfFloat(Strip(Str(qty_value))) > 0

\* The text is an infinity float() accepts, of which int() raises
\* OverflowError
IsInfinity(text) ==
    LET body == IF text # <<>> /\ text[1] \in {"-", "+"} THEN Tail(text) ELSE text
    IN  Lower(body) \in {<<"i","n","f">>, <<"i","n","f","i","n","i","t","y">>}

\* int(float(...)) of the cell raises an exception the handler of
\* _build_prendas_list does not catch
QtyRaises(qty_value) ==
    /\ qty_value # None
    /\ NotNa(qty_value)
    /\ IsInfinity(Strip(Str(qty_value)))

\* _build_prendas_list raises: the quantity of one of the garment keys does
PrendasListRaises(row) ==
    \E n \in DOMAIN UNIFORM_COLUMN_NAMES :
        QtyRaises(QtyValue(row, UNIFORM_COLUMN_NAMES[n]))

\* FileGenerationService._build_prendas_list, when it does not raise
BuildPrendasList(row, talla_superior) ==
    LET kept == {n \in DOMAIN UNIFORM_COLUMN_NAMES :
                    IsPositiveQty(QtyValue(row, UNIFORM_COLUMN_NAMES[n]))}
        order == SortedSeq(kept)
    IN  [x \in DOMAIN order |->
            LET prenda_name == UNIFORM_COLUMN_NAMES[order[x]]
                clean_name == Upper(prenda_name)
            IN  [string |-> PrendaString(DisplayName(clean_name), talla_superior),
                 qty |-> IntOfFloat(Strip(Str(QtyValue(row, prenda_name)))),
                 prenda_type |-> clean_name]]

\* UnifiedConfig.default_occupation
default_occupation == sMOZO

sOTHER == <<"O","T","H","E","R">>

\* A variant that leaves a label that does not resolve as it is
NormalizeOccupation_KeepLabel(occupations, cargo) ==
    LET occupation == GetOccupation(occupations, cargo)
    IN  IF occupation = NoOccupation THEN Upper(cargo)
        ELSE occupation.name

\* UnifiedConfigService.normalize_occupation: the canonical name of the
\* occupation the label resolves to, the default occupation if none
NormalizeOccupation(occupations, cargo) ==
    LET occupation == GetOccupation(occupations, cargo)
    IN  IF occupation = NoOccupation THEN default_occupation
        ELSE occupation.name

\* The size a garment entry carries: what follows " TALLA " in its string
PrendaSize(prenda) ==
    LET at == {i \in 1..(Len(prenda.string) - Len(sTALLA) + 1) :
                 SubSeq(prenda.string, i, i + Len(sTALLA) - 1) = sTALLA}
    IN  IF at = {} THEN <<>>
        ELSE SubSeq(prenda.string,
                    (CHOOSE i \in at : \A j \in at : i <= j) + Len(sTALLA),
                    Len(prenda.string))

\* UnifiedConfigService.calculate_total_price: one price per garment entry,
\* its quantity ignored
RECURSIVE CalculateTotalPrice(_, _, _, _)
CalculateTotalPrice(occupations, prendas, cargo, local) ==
    IF prendas = <<>> THEN 0
    ELSE GetPrice(occupations, prendas[1].prenda_type, PrendaSize(prendas[1]),
                  cargo, local)
         + CalculateTotalPrice(occupations, Tail(prendas), cargo, local)

\* FileGenerationService._get_uniform_row_for_person; NoRow is None
GetUniformRowForPerson(row, ws) ==
    IF ws.uniform_data.isNone \/ Len(ws.data.rows) = 0 THEN NoRow
    ELSE IF row.name < Len(ws.uniform_data.rows)
    THEN RowOf(ws.uniform_data, row.name + 1)
    ELSE NoRow

\* uniform_row if uniform_row is not None else row
DataRow(row, uniform_row) == IF uniform_row # NoRow THEN uniform_row ELSE row

\* FileGenerationService._get_monto_for_person
GetMontoForPerson(occupations, row, metadata, uniform_row) ==
    LET cargo == OrElse(OrElse(FindInRow(row, <<scargo>>), <<>>), sMOZO)
        normalized_cargo == NormalizeOccupation(occupations, cargo)
        local == OrElse(metadata.tienda, sOTHER)
        prendas == BuildPrendasList(DataRow(row, uniform_row),
                                    ExtractTallaSuperior(row))
    IN  IF PrendasListRaises(DataRow(row, uniform_row)) THEN 0
        ELSE CalculateTotalPrice(occupations, prendas, normalized_cargo, local)

\* FileGenerationService._get_system_date and datetime.now().month: the
\* day the documents are generated
GetSystemDate ==
    [dia |-> <<"0", Digits[today + 1]>>, mes |-> <<"1","1">>,
     mes_string |-> <<"n","o","v","i","e","m","b","r","e">>, anho |-> <<"2","0","2","6">>]

sDe == <<" ","d","e"," ">>
sSlash == <<" ","/"," ">>

\* f"S/ {monto_value:.2f}"
Money(monto_value) == [currency |-> "S/", amount |-> monto_value]

sAUTORIZACION == <<"A","U","T","O","R","I","Z","A","C","I","O","N">>
sCARGO == <<"C","A","R","G","O">>

\* ctx.get(key, default)
CtxGet(ctx, key, default) == IF key \in DOMAIN ctx THEN ctx[key] ELSE default

\* The context dict of _build_autorizacion_context
AutorizacionContext(date, person_data, metadata, monto_value) ==
    ("dia" :> date.dia) @@ ("mes" :> date.mes) @@ ("anho" :> date.anho)
    @@ ("fecha" :> date.dia \o sSlash \o date.mes \o sSlash \o date.anho)
    @@ ("local" :> metadata.tienda)
    @@ ("cargo" :> person_data.cargo)
    @@ ("nombre" :> person_data.nombre)
    @@ ("identificacion" :> person_data.identificacion)
    @@ ("monto" :> Money(monto_value))

\* FileGenerationService._build_autorizacion_context
BuildAutorizacionContext(occupations, row, metadata, uniform_row) ==
    AutorizacionContext(GetSystemDate, ExtractCommonPersonData(row), metadata,
                        GetMontoForPerson(occupations, row, metadata, uniform_row))

\* The context dict of _build_cargo_context
CargoContext(date, person_data, prendas, monto_value) ==
    ("dia" :> date.dia) @@ ("mes_string" :> date.mes_string)
    @@ ("anho" :> date.anho)
    @@ ("fecha" :> date.dia \o sDe \o date.mes_string \o sDe \o date.anho)
    @@ ("nombre" :> person_data.nombre)
    @@ ("prendas" :> prendas)
    @@ ("monto" :> Money(monto_value))

\* FileGenerationService._build_cargo_context
BuildCargoContext(occupations, row, metadata, uniform_row) ==
    CargoContext(GetSystemDate, ExtractCommonPersonData(row),
                 BuildPrendasList(DataRow(row, uniform_row),
                                  ExtractTallaSuperior(row)),
                 GetMontoForPerson(occupations, row, metadata, uniform_row))

\* GenerationOptions; NoOptions is options=None
GenerationOptions(selected_locales, combine_per_local, cargo_enabled, autorizacion_enabled) ==
    [isNone |-> FALSE, selected_locales |-> selected_locales,
     combine_per_local |-> combine_per_local, cargo_enabled |-> cargo_enabled,
     autorizacion_enabled |-> autorizacion_enabled]

NoOptions ==
    [isNone |-> TRUE, selected_locales |-> <<>>, combine_per_local |-> FALSE,
     cargo_enabled |-> FALSE, autorizacion_enabled |-> FALSE]

\* The calls that raise for single people and locales during a run:
\* unbuilt, the <<name, kind>> whose context builder raises (the handler
\* of the builder returns None); unrendered, the <<name, kind>> whose
\* render raises; unmerged, the <<locale, kind>> whose composition raises;
\* fallback, whether the fallback document can then be saved
Faults(unbuilt, unrendered, unmerged, fallback) ==
    [unbuilt |-> unbuilt, unrendered |-> unrendered, unmerged |-> unmerged,
     fallback |-> fallback]

NoFaults == Faults({}, {}, {}, TRUE)

\* FileGenerationService._build_person_contexts: the person's contexts in
\* the order they are put into the dict; there is no CARGO context when
\* _build_cargo_context returns None because the garment list raised
BuildPersonContexts(occupations, row, ws, options) ==
    LET uniform_row == GetUniformRowForPerson(row, ws)
    IN  (IF options.autorizacion_enabled
         THEN <<[template_type |-> sAUTORIZACION,
                 context |-> BuildAutorizacionContext(occupations, row,
                                                      ws.metadata, uniform_row)]>>
         ELSE <<>>)
        \o (IF options.cargo_enabled /\ ~PrendasListRaises(DataRow(row, uniform_row))
            THEN <<[template_type |-> sCARGO,
                    context |-> BuildCargoContext(occupations, row, ws.metadata,
                                                  uniform_row)]>>
            ELSE <<>>)

\* ExcelData.is_loaded
IsLoaded(worksheets) ==
    Len(worksheets) > 0 /\ \E i \in DOMAIN worksheets : ~worksheets[i].data.isNone

\* FileGenerationService._create_default_options
CreateDefaultOptions(worksheets) ==
    LET with == SortedSeq({i \in DOMAIN worksheets :
                              worksheets[i].metadata.tienda # <<>>})
    IN  GenerationOptions([a \in DOMAIN with |-> worksheets[with[a]].metadata.tienda],
                          FALSE, TRUE, TRUE)

\* FileGenerationService._get_enabled_templates
GetEnabledTemplates(options) ==
    (IF options.autorizacion_enabled THEN <<sAUTORIZACION>> ELSE <<>>)
    \o (IF options.cargo_enabled THEN <<sCARGO>> ELSE <<>>)

RECURSIVE Flatten(_)
Flatten(seqs) == IF seqs = <<>> THEN <<>> ELSE seqs[1] \o Flatten(Tail(seqs))

\* The key _group_data_by_locale files a sheet under
LocaleKey(ws) == Strip(Str(OrElse(ws.metadata.tienda, <<>>)))

\* A variant that does not test the key for emptiness
SheetIsGrouped_BlankKept(ws, options) ==
    /\ InList(LocaleKey(ws), options.selected_locales)
    /\ ~ws.data.isNone
    /\ Len(ws.data.rows) > 0 /\ Len(ws.data.columns) > 0

\* The sheet passes the filters of _group_data_by_locale
SheetIsGrouped(ws, options) ==
    /\ LocaleKey(ws) # <<>>
    /\ InList(LocaleKey(ws), options.selected_locales)
    /\ ~ws.data.isNone
    /\ Len(ws.data.rows) > 0 /\ Len(ws.data.columns) > 0

\* _build_person_contexts when the builders of unbuilt raise: a builder
\* that raises returns None and its kind is not put into the dict
BuiltPersonContexts(person_contexts, unbuilt) ==
    SelectSeq(person_contexts,
              LAMBDA c : <<CtxGet(c.context, "nombre", <<>>), c.template_type>>
                             \notin unbuilt)

\* The contexts of the people of one sheet, people without any context
\* left out
SheetPeople(occupations, ws, options, unbuilt) ==
    SelectSeq([i \in DOMAIN ws.data.rows |->
                  BuiltPersonContexts(
                      BuildPersonContexts(occupations, RowOf(ws.data, i), ws, options),
                      unbuilt)],
              LAMBDA person_contexts : person_contexts # <<>>)

\* The dict _group_data_by_locale builds from the people each sheet gives,
\* as the sequence of its items: a key per locale in the order of the first
\* sheet that gives a person, the people of its sheets in sheet order
GroupPeople(worksheets, people) ==
    LET giving == {i \in DOMAIN worksheets : people[i] # <<>>}
        first == SortedSeq({i \in giving :
                    \A j \in giving :
                        j < i => LocaleKey(worksheets[j]) # LocaleKey(worksheets[i])})
    IN  [a \in DOMAIN first |->
            LET tienda == LocaleKey(worksheets[first[a]])
                same == SortedSeq({i \in giving :
                                     LocaleKey(worksheets[i]) = tienda})
            IN  [tienda |-> tienda,
                 people |-> Flatten([b \in DOMAIN same |-> people[same[b]]])]]

\* FileGenerationService._group_data_by_locale
GroupDataByLocale(occupations, worksheets, options, unbuilt) ==
    GroupPeople(worksheets,
                [i \in DOMAIN worksheets |->
                    IF SheetIsGrouped(worksheets[i], options)
                    THEN SheetPeople(occupations, worksheets[i], options, unbuilt)
                    ELSE <<>>])

----------------------------------------------------------------------------
(* Validation of the loaded data: ExcelService.validate_excel_data         *)

\* ExcelService.__init__ stores the logger only: the service has no
\* attribute unified_service
HasUnifiedService == FALSE

MsgNoWorksheetsLoaded ==
    Msg(<<"No", "Excel", "worksheets", "could", "be", "loaded">>, <<>>)
MsgNoAttribute ==
    Msg(<<"Validation", "error:", "{}">>,
        <<"'ExcelService' object has no attribute 'unified_service'">>)
MsgNoUnique ==
    Msg(<<"Validation", "error:", "{}">>,
        <<"'DataFrame' object has no attribute 'unique'">>)

\* f"Sheet '{sheet_name}': {message}"
SheetPrefixed(sheet_name, m) ==
    Msg(<<"Sheet", "'{}':">> \o m.fmt, <<sheet_name>> \o m.values)

\* The errors (or warnings) of every sheet, prefixed, in sheet order
PrefixedMessages(worksheets, field) ==
    Flatten([i \in DOMAIN worksheets |->
                [k \in DOMAIN worksheets[i][field] |->
                    SheetPrefixed(worksheets[i].metadata.sheet_name,
                                  worksheets[i][field][k])]])

\* The columns of the person table labelled cargo
CargoColumns(ws) ==
    {c \in DOMAIN ws.data.columns : ws.data.columns[c] = scargo}

\* The occupation check of a sheet raises and with what: two columns
\* labelled cargo give a frame, which has no unique(); one gives its values,
\* and the first one that is not blank reaches self.unified_service
OccupationCheck(ws) ==
    IF ws.data.isNone \/ CargoColumns(ws) = {} THEN <<>>
    ELSE IF Cardinality(CargoColumns(ws)) > 1 THEN <<MsgNoUnique>>
    ELSE IF /\ ~HasUnifiedService
            /\ \E r \in DOMAIN ws.data.rows : \E c \in CargoColumns(ws) :
                   /\ ws.data.rows[r].cells[c] # NaN
                   /\ Strip(Str(ws.data.rows[r].cells[c])) # <<>>
    THEN <<MsgNoAttribute>>
    ELSE <<>>

\* ExcelService.validate_excel_data: the result without its message. With
\* no parsed sheet it returns before it looks at the sheets; an exception
\* of the occupation check ends in the handler, which adds an error to
\* what was collected and leaves is_valid false
ValidateExcelData(worksheets) ==
    LET raising == Flatten([i \in DOMAIN worksheets |-> OccupationCheck(worksheets[i])])
    IN  IF ~IsLoaded(worksheets)
        THEN [is_valid |-> FALSE, errors |-> <<MsgNoWorksheetsLoaded>>,
              warnings |-> <<>>]
        ELSE [is_valid |-> raising = <<>>,
              errors |-> PrefixedMessages(worksheets, "errors")
                         \o (IF raising = <<>> THEN <<>> ELSE <<raising[1]>>),
              warnings |-> PrefixedMessages(worksheets, "warnings")]

----------------------------------------------------------------------------
(* The file system and document generation: services.py                   *)

\* str.isalnum() of one character
IsAlnum(c) == c \in LowerSet \/ c \in UpperSet \/ IsDigit(c)

\* FileGenerationService._sanitize_name
SanitizeName(text) ==
    LET kept == SelectSeq(text, LAMBDA ch : IsAlnum(ch) \/ ch \in {"_", "-", " "})
        stripped == Strip(kept)
    IN  [i \in DOMAIN stripped |-> IF stripped[i] = " " THEN "_" ELSE stripped[i]]

\* FileGenerationService._file_stub
FileStub(ctx) ==
    LET nombre == Strip(CtxGet(ctx, "nombre", <<>>))
        cargo == Strip(CtxGet(ctx, "cargo", <<>>))
    IN  SanitizeName(IF nombre # <<>> /\ cargo # <<>> THEN nombre \o <<"_">> \o cargo
                     ELSE nombre \o cargo)

\* FileGenerationService._extract_person_name
ExtractPersonName(person_contexts) ==
    LET named == {i \in DOMAIN person_contexts :
                     CtxGet(person_contexts[i].context, "nombre", <<>>) # <<>>}
    IN  IF named = {} THEN <<>>
        ELSE person_contexts[CHOOSE i \in named : \A j \in named : i <= j]
                 .context["nombre"]

\* A path is the sequence of its components; path / name
Join(path, name) == IF name = <<>> THEN path ELSE Append(path, name)

\* The file system: its entries, each a directory or a file with content
Dir(path) == [path |-> path, kind |-> "dir", content |-> <<>>]
File(path, content) == [path |-> path, kind |-> "file", content |-> content]

Exists(files, path) == \E e \in files : e.path = path

\* Path.mkdir(parents=True, exist_ok=True)
Mkdir(files, path) ==
    files \cup {Dir(SubSeq(path, 1, n)) :
                    n \in {m \in 1..Len(path) : ~Exists(files, SubSeq(path, 1, m))}}

\* A pending Path.mkdir call: the path and its parents argument
MkdirCall(path, parents) == [path |-> path, parents |-> parents]

\* The parent of a path; the parent of a path of one component is the
\* root, which is always there
Parent(path) == SubSeq(path, 1, Len(path) - 1)

IsDir(files, path) == path = <<>> \/ Dir(path) \in files

\* A variant of the call without exist_ok
OsMkdir_NoExistOk(files, call) ==
    IF Exists(files, call.path) THEN "raise"
    ELSE IF ~Exists(files, Parent(call.path)) /\ Parent(call.path) # <<>>
    THEN (IF call.parents THEN "no_parent" ELSE "raise")
    ELSE IF ~IsDir(files, Parent(call.path)) THEN "raise"
    ELSE "created"

\* One os.mkdir attempt of Path.mkdir(parents, exist_ok=True) and what
\* the call makes of it: the directory is created; it exists already,
\* which is passed over when it is a directory; its parent is missing, so
\* that the parent is made first when parents is set; anything else is
\* raised
OsMkdir(files, call) ==
    IF Exists(files, call.path)
    THEN (IF IsDir(files, call.path) THEN "exists" ELSE "raise")
    ELSE IF ~Exists(files, Parent(call.path)) /\ Parent(call.path) # <<>>
    THEN (IF call.parents THEN "no_parent" ELSE "raise")
    ELSE IF ~IsDir(files, Parent(call.path)) THEN "raise"
    ELSE "created"

\* tpl.save(path), composer.save(path): the file is created or replaced
Save(files, path, content) ==
    {e \in files : e.path # path} \cup {File(path, content)}

sDocx == <<".","d","o","c","x">>
sCombined == <<"_","C","O","M","B","I","N","E","D","_">>

\* The path _generate_single_document renders a context to
DocumentPath(person_folder, template_type, context) ==
    Join(person_folder, template_type \o <<"_">> \o FileStub(context) \o sDocx)

\* The folder of a locale and the folder of a person in it
TiendaFolder(dest_path, tienda) == Join(dest_path, SanitizeName(tienda))
PersonFolder(tienda_folder, person_name) ==
    Join(tienda_folder, SanitizeName(person_name))

\* A variant in which a render that raises ends the renders of the person
PersonJobs_StopAtFailure(t, tienda_folder, person_contexts, failing, unrendered) ==
    LET person_name == ExtractPersonName(person_contexts)
        person_folder == PersonFolder(tienda_folder, person_name)
        raises(x) == \/ person_contexts[x].template_type \in failing
                     \/ <<person_name, person_contexts[x].template_type>>
                            \in unrendered
    IN  IF person_name = <<>> THEN <<>>
        ELSE [x \in DOMAIN person_contexts |->
                [t |-> t,
                 person_folder |-> person_folder,
                 template_type |-> person_contexts[x].template_type,
                 path |-> DocumentPath(person_folder,
                                       person_contexts[x].template_type,
                                       person_contexts[x].context),
                 content |-> person_contexts[x],
                 ok |-> \A y \in 1..x : ~raises(y)]]

\* The render calls for one person, in the order _generate_documents makes
\* them: none for a person without a name; a call for a template of a
\* failing kind, or of a person and kind of unrendered, raises in
\* _generate_single_document and produces nothing
PersonJobs(t, tienda_folder, person_contexts, failing, unrendered) ==
    LET person_name == ExtractPersonName(person_contexts)
        person_folder == PersonFolder(tienda_folder, person_name)
    IN  IF person_name = <<>> THEN <<>>
        ELSE [x \in DOMAIN person_contexts |->
                [t |-> t,
                 person_folder |-> person_folder,
                 template_type |-> person_contexts[x].template_type,
                 path |-> DocumentPath(person_folder,
                                       person_contexts[x].template_type,
                                       person_contexts[x].context),
                 content |-> person_contexts[x],
                 ok |-> /\ person_contexts[x].template_type \notin failing
                        /\ <<person_name, person_contexts[x].template_type>>
                               \notin unrendered]]

\* The render calls of a whole run, locale after locale, person after person
Jobs(tienda_to_rows, dest_path, failing, unrendered) ==
    Flatten([t \in DOMAIN tienda_to_rows |->
        Flatten([p \in DOMAIN tienda_to_rows[t].people |->
            PersonJobs(t, TiendaFolder(dest_path, tienda_to_rows[t].tienda),
                       tienda_to_rows[t].people[p], failing, unrendered)])])

\* template_docs of locale t: the paths produced, per template type
TemplateDocs(jobs, t, template_type) ==
    SelectSeq(jobs, LAMBDA j : j.ok /\ j.t = t /\ j.template_type = template_type)

\* The document a path holds once the locales up to t are generated: the
\* last one rendered to it
RenderedAt(jobs, path, t) ==
    LET at == {k \in DOMAIN jobs : jobs[k].ok /\ jobs[k].path = path /\ jobs[k].t <= t}
    IN  jobs[CHOOSE k \in at : \A m \in at : m <= k].content

\* The last component of a path
PathName(path) == path[Len(path)]

\* The document _create_fallback_combined_docx writes: the names of the
\* individual documents
FallbackDocument(docs) ==
    [d \in DOMAIN docs |->
        [template_type |-> docs[d].template_type,
         context |-> ("listed" :> PathName(docs[d].path))]]

\* The document docxcompose makes of the individual documents as they are
\* on disk, in the order produced
ComposedDocument(jobs, docs, t) ==
    [d \in DOMAIN docs |-> RenderedAt(jobs, docs[d].path, t)]

\* One call of _create_combined_docx: what is written to the combined
\* path, if anything
CombinedDocx(jobs, docs, tienda, template_type, t, faults) ==
    IF <<tienda, template_type>> \notin faults.unmerged
    THEN [written |-> TRUE, content |-> ComposedDocument(jobs, docs, t)]
    ELSE [written |-> faults.fallback, content |-> FallbackDocument(docs)]

\* The template types of template_docs of locale t, in the order of the
\* first document produced for each
TemplateTypes(jobs, t) ==
    LET first(y) == {k \in DOMAIN jobs :
                        /\ jobs[k].ok /\ jobs[k].t = t /\ jobs[k].template_type = y
                        /\ \A m \in 1..(k - 1) :
                              ~(jobs[m].ok /\ jobs[m].t = t
                                /\ jobs[m].template_type = y)}
        firsts == SortedSeq(first(sAUTORIZACION) \cup first(sCARGO))
    IN  [a \in DOMAIN firsts |-> jobs[firsts[a]].template_type]

\* A variant in which a composition that raises ends the merges of the run
CombinedDocuments_StopAtFailure(jobs, tienda_to_rows, dest_path, t, faults) ==
    LET types == TemplateTypes(jobs, t)
        raising(u, y) == <<tienda_to_rows[u].tienda, y>> \in faults.unmerged
        before(a) == \/ \E u \in 1..(t - 1) : \E y \in {sAUTORIZACION, sCARGO} :
                            TemplateDocs(jobs, u, y) # <<>> /\ raising(u, y)
                     \/ \E c \in 1..(a - 1) : raising(t, types[c])
    IN  [a \in DOMAIN types |->
            [t |-> t,
             path |-> Join(TiendaFolder(dest_path, tienda_to_rows[t].tienda),
                           types[a] \o sCombined
                           \o SanitizeName(tienda_to_rows[t].tienda) \o sDocx),
             docx |-> IF before(a)
                      THEN [written |-> FALSE, content |-> <<>>]
                      ELSE CombinedDocx(jobs, TemplateDocs(jobs, t, types[a]),
                                        tienda_to_rows[t].tienda, types[a], t,
                                        faults)]]

\* FileGenerationService._create_combined_documents for locale t: one call
\* of _create_combined_docx per template type that produced documents
CombinedDocuments(jobs, tienda_to_rows, dest_path, t, faults) ==
    LET types == TemplateTypes(jobs, t)
    IN  [a \in DOMAIN types |->
            [t |-> t,
             path |-> Join(TiendaFolder(dest_path, tienda_to_rows[t].tienda),
                           types[a] \o sCombined
                           \o SanitizeName(tienda_to_rows[t].tienda) \o sDocx),
             docx |-> CombinedDocx(jobs, TemplateDocs(jobs, t, types[a]),
                                   tienda_to_rows[t].tienda, types[a], t, faults)]]

\* A variant in which a document whose path is taken is saved next to it
SaveAll_NoOverwrite(files, made, written) ==
    files \cup {d \in made : ~Exists(files, d.path)}
          \cup {IF Exists(files, w.path)
                THEN File(Append(w.path, <<"1">>), w.content) ELSE w :
                   w \in written}

\* The file system after the folders made are created and the documents
\* written are saved: mkdir keeps what exists, save replaces it
SaveAll(files, made, written) ==
    {e \in files : \A w \in written : w.path # e.path}
    \cup {d \in made : ~Exists(files, d.path)}
    \cup written

\* The file system the render calls and the combined documents leave, and
\* the number of files counted
WriteDocuments(files, tienda_to_rows, dest_path, options, jobs, faults) ==
    LET combined == IF options.combine_per_local
                    THEN Flatten([t \in DOMAIN tienda_to_rows |->
                             CombinedDocuments(jobs, tienda_to_rows, dest_path, t,
                                               faults)])
                    ELSE <<>>
        folders == {TiendaFolder(dest_path, tienda_to_rows[t].tienda) :
                       t \in DOMAIN tienda_to_rows}
                   \cup {jobs[k].person_folder : k \in DOMAIN jobs}
        made == UNION {{Dir(SubSeq(f, 1, n)) : n \in 1..Len(f)} : f \in folders}
        documents == {File(jobs[k].path,
                           RenderedAt(jobs, jobs[k].path, Len(tienda_to_rows))) :
                         k \in {m \in DOMAIN jobs : jobs[m].ok}}
        saved == {m \in DOMAIN combined : combined[m].docx.written}
        merged == {File(combined[k].path, combined[k].docx.content) :
                      k \in {m \in saved :
                                \A n \in saved :
                                    combined[n].path = combined[m].path => n <= m}}
        written == documents \cup merged
    IN  [files |-> SaveAll(files, made, written),
         files_generated |-> Cardinality({k \in DOMAIN jobs : jobs[k].ok})
                             + Len(combined)]

\* FileGenerationService._generate_documents
GenerateDocuments(files, tienda_to_rows, dest_path, options, failing, faults) ==
    WriteDocuments(files, tienda_to_rows, dest_path, options,
                   Jobs(tienda_to_rows, dest_path, failing, faults.unrendered),
                   faults)

----------------------------------------------------------------------------
(* Catalogs and arguments of the pricing and resolution checks *)

\* Nine distinct, non-zero price points
DensePrices(base) ==
    [p \in SizeGroups \X LocalGroups |->
        base + (CASE p[1] = "sml" -> 0 [] p[1] = "xl" -> 1 [] OTHER -> 2)
             + (CASE p[2] = "other" -> 0 [] p[2] = "tarapoto" -> 3 [] OTHER -> 6)]

MozoPrendas == <<OccupationPrenda(sCAMISA, DensePrices(10))>>
PackerPrendas == <<OccupationPrenda(sCamisaLower, DensePrices(50)),
                   OccupationPrenda(sGORRA, DensePrices(30))>>

PriceCatalogs ==
    { <<Occupation(sMOZO, <<>>, MozoPrendas)>>,
      <<Occupation(sMOZO, <<>>, MozoPrendas),
        Occupation(sPackerMixed, <<sPKR>>, PackerPrendas)>> }

PriceArgPrendas == {sCAMISA, sCamisaLower, sBLUSA}
PriceArgSizes == {sM, sXL, sXlLower, sXXL, sXS, sEmpty}
PriceArgCargos == {sMOZO, sPkrLower, sXYZ}
PriceArgLocals == {sLIMA, sTarapoto2, sSAN_ISIDRO, sEmpty}

\* The sizes of the size check: every size of the catalog, in upper and
\* lower case and with blanks around it, the name of the S/M/L group
\* itself, sizes the catalog does not have, and none
sXlPadded == <<" ","x","l"," ">>
sXxlLower == <<"x","x","l">>
sXXXL == <<"X","X","X","L">>
SizeArgSizes ==
    {sS, sM, sL, sXL, sXlLower, sXlPadded, sXXL, sXxlLower, sSML, sXS, sXXXL, sEmpty}

\* The smaller argument sets of the runs that also edit the catalog
EditArgPrendas == {sCAMISA, sBLUSA}
EditArgSizes == {sM, sXL, sXS}
EditArgCargos == {sMOZO, sPackerMixed, sXYZ}
EditArgLocals == {sLIMA, sTARAPOTO}
EditSizeGroups == {"sml", "xl"}
EditLocalGroups == {"other", "tarapoto"}
EditValues == {77}

NoCall == [valid |-> FALSE, args |-> <<>>, result |-> 0]
NoEdit == [valid |-> FALSE, occupation |-> <<>>, prenda_type |-> <<>>,
           size_group |-> "", local_group |-> "", value |-> 0]
NoResolve == [valid |-> FALSE, label |-> <<>>, result |-> NoOccupation]

\* Catalogs of the resolution check: every sequence of at most
\* MaxOccupations entries, names and synonym lists drawn from small sets
\* that include a synonym equal to another entry's name, a synonym shared
\* by two entries and a synonym stored with surrounding blanks.
ResolveNames == {sMOZO, sPackerMixed}
ResolveSynonyms == {<<>>, <<sPKR>>, <<sPkrLower, sMozoLower>>, <<sPACKER>>,
                    <<sPkrPadded>>}
ResolveShapes ==
    {Occupation(n, syn, <<>>) : n \in ResolveNames, syn \in ResolveSynonyms}

RECURSIVE SeqsUpTo(_, _)
SeqsUpTo(S, n) ==
    IF n = 0 THEN {<<>>}
    ELSE LET shorter == SeqsUpTo(S, n - 1)
         IN  shorter \cup {Append(q, x) : q \in shorter, x \in S}

ResolveCatalogs == SeqsUpTo(ResolveShapes, MaxOccupations) \ {<<>>}

ResolveLabels == {sMOZO, sMozoLower, sPACKER, sPackerMixed, sPKR, sPkrLower,
                  sPkrPadded, sPACK, sXYZ, sEmpty}

\* GenerationResult
GenerationResult(success, files_generated, errors, message) ==
    [success |-> success, files_generated |-> files_generated,
     errors |-> errors, message |-> message]

\* What the call of the template validator and the system calls of one
\* generate_files call do: the validator call raises AttributeError
\* ("missing": validators.py defines no validate_autorizacion_template),
\* returns no error ("none") or returns errors ("errors"); the destination
\* can be created or mkdir raises; docxtpl can be imported or not; the
\* templates of the kinds in failing cannot be rendered; faults are the
\* calls that raise for single people and locales
Environment(validator, creatable, docxtpl, failing) ==
    [validator |-> validator, creatable |-> creatable, docxtpl |-> docxtpl,
     failing |-> failing, faults |-> NoFaults]

\* An environment in which every precondition passes and the calls of
\* faults raise
FaultyEnvironment(faults) ==
    [validator |-> "none", creatable |-> TRUE, docxtpl |-> TRUE,
     failing |-> {}, faults |-> faults]

NoLoadCall ==
    [valid |-> FALSE, file |-> ExcelFile(<<>>, FALSE, FALSE, <<>>),
     raised |-> FALSE, message |-> Msg(<<>>, <<>>)]

NoContextCall == [valid |-> FALSE, sheet |-> 0, row |-> 0, options |-> NoOptions,
                  person_contexts |-> <<>>]
NoGenCall == [valid |-> FALSE, options |-> NoOptions,
              env |-> Environment("none", TRUE, TRUE, {}),
              today |-> 0, sheets |-> 0]
NoResult == GenerationResult(FALSE, 0, <<>>, Msg(<<>>, <<>>))

MsgNoExcelData == Msg(<<"No", "Excel", "data", "loaded">>, <<>>)
MsgTemplateValidationFailed == Msg(<<"Template", "validation", "failed">>, <<>>)
MsgNoTemplatesSelected ==
    Msg(<<"No", "templates", "selected", "for", "generation">>, <<>>)
MsgDocxtplNotAvailable ==
    Msg(<<"docxtpl", "not", "available;", "please", "install",
          "python-docx-template">>, <<>>)
MsgNoMatchingLocales ==
    Msg(<<"No", "matching", "locales", "or", "people", "to", "generate">>, <<>>)
MsgErrorDuringGeneration(exception) ==
    Msg(<<"Error", "during", "file", "generation:", "{}">>, <<exception>>)
MsgGenerated(templates, total_people, locales) ==
    Msg(<<"Generated", "{}", "documents", "for", "{}", "people", "across", "{}",
          "locales">>, <<templates, total_people, locales>>)
MsgTemplateNotFound == Msg(<<"AUTORIZACION", "template", "not", "found:", "{}">>, <<>>)
MsgNoModuleDocxtpl == Msg(<<"No", "module", "named", "'docxtpl'">>, <<>>)

AttributeErrorText ==
    "type object 'TemplateValidator' has no attribute 'validate_autorizacion_template'"
MkdirErrorText == "[Errno 13] Permission denied"

\* TemplateValidator.validate_autorizacion_template(config) as
\* _validate_generation_inputs calls it: the call raises or returns the
\* list of template errors
ValidateAutorizacionTemplate(env) ==
    [raised |-> env.validator = "missing",
     errors |-> IF env.validator = "errors" THEN <<MsgTemplateNotFound>> ELSE <<>>]

\* FileGenerationService._validate_generation_inputs: the result it
\* returns or the exception it raises, and the file system it leaves
ValidateGenerationInputs(worksheets, dest_path, options, files0, env) ==
    LET template == ValidateAutorizacionTemplate(env)
        failed(message, errors, files1) ==
            [raised |-> FALSE, exception |-> "", files |-> files1,
             result |-> GenerationResult(FALSE, 0, errors, message)]
        raise(exception, files1) ==
            [raised |-> TRUE, exception |-> exception, files |-> files1,
             result |-> NoResult]
        made == Mkdir(files0, dest_path)
    IN  IF ~IsLoaded(worksheets) THEN failed(MsgNoExcelData, <<>>, files0)
        ELSE IF template.raised THEN raise(AttributeErrorText, files0)
        ELSE IF template.errors # <<>>
        THEN failed(MsgTemplateValidationFailed, template.errors, files0)
        ELSE IF ~env.creatable /\ ~Exists(files0, dest_path)
        THEN raise(MkdirErrorText, files0)
        ELSE IF ~options.isNone
                /\ ~(options.autorizacion_enabled \/ options.cargo_enabled)
        THEN failed(MsgNoTemplatesSelected, <<>>, made)
        ELSE IF ~env.docxtpl
        THEN failed(MsgDocxtplNotAvailable, <<MsgNoModuleDocxtpl>>, made)
        ELSE [raised |-> FALSE, exception |-> "", files |-> made,
              result |-> GenerationResult(TRUE, 0, <<>>, Msg(<<>>, <<>>))]

RECURSIVE TotalPeople(_)
TotalPeople(groups) ==
    IF groups = <<>> THEN 0 ELSE Len(groups[1].people) + TotalPeople(Tail(groups))

\* The result of generate_files once the locale groups are built
GenerateGroups(groups, files1, dest_path, options, env, generated) ==
    IF groups = <<>>
    THEN [result |-> GenerationResult(FALSE, 0, <<>>, MsgNoMatchingLocales),
          files |-> files1, tienda_to_rows |-> groups]
    ELSE [result |-> GenerationResult(TRUE, generated.files_generated, <<>>,
                         MsgGenerated(GetEnabledTemplates(options),
                                      TotalPeople(groups), Len(groups))),
          files |-> generated.files, tienda_to_rows |-> groups]

\* generate_files after the validation of its inputs
GenerateValidated(occupations, worksheets, dest_path, options, env, validation_result, groups) ==
    IF validation_result.raised
    THEN [result |-> GenerationResult(FALSE, 0,
                         <<MsgErrorDuringGeneration(validation_result.exception)>>,
                         MsgErrorDuringGeneration(validation_result.exception)),
          files |-> validation_result.files, tienda_to_rows |-> <<>>]
    ELSE IF ~validation_result.result.success
    THEN [result |-> GenerationResult(FALSE, 0, validation_result.result.errors,
                                      validation_result.result.message),
          files |-> validation_result.files, tienda_to_rows |-> <<>>]
    ELSE GenerateGroups(groups, validation_result.files, dest_path, options, env,
                        GenerateDocuments(validation_result.files, groups,
                                          dest_path, options, env.failing,
                                          env.faults))

\* The options generate_files works with
EffectiveOptions(worksheets, options) ==
    IF options.isNone THEN CreateDefaultOptions(worksheets) ELSE options

\* generate_files with the options it works with
GenerateWith(occupations, worksheets, dest_path, options0, options, files0, env) ==
    GenerateValidated(occupations, worksheets, dest_path, options, env,
        ValidateGenerationInputs(worksheets, dest_path, options0, files0, env),
        GroupDataByLocale(occupations, worksheets, options, env.faults.unbuilt))

\* FileGenerationService.generate_files: the result it returns, the file
\* system it leaves and the locale groups it built
GenerateFiles(occupations, worksheets, dest_path, options0, files0, env) ==
    GenerateWith(occupations, worksheets, dest_path, options0,
                 EffectiveOptions(worksheets, options0), files0, env)

\* No validate_excel_data call yet
NoValidateCall ==
    [valid |-> FALSE, raised |-> FALSE, is_valid |-> FALSE, errors |-> <<>>,
     warnings |-> <<>>]

\* No file loaded, nothing generated
NothingLoaded ==
    /\ workbook = <<>>
    /\ excel_data = <<>>
    /\ loadCall = NoLoadCall
    /\ contextCall = NoContextCall
    /\ disk = {}
    /\ genResult = NoResult
    /\ genCall = NoGenCall
    /\ genGroups = <<>>
    /\ prevGen = [call |-> NoGenCall, result |-> NoResult, disk |-> {}]
    /\ today = 1
    /\ runs = 0
    /\ workers = <<>>
    /\ validateCall = NoValidateCall

----------------------------------------------------------------------------
(* Pricing: price-point edits and price calls *)

\* UnifiedConfigService.update_prenda_pricing, as the price dialog calls it:
\* one price point of one garment entry of one occupation is overwritten.
EditPrice(i, k, sg, lg, v) ==
    /\ edits < MaxEdits
    /\ catalog' = [catalog EXCEPT ![i].prendas[k].price[<<sg, lg>>] = v]
    /\ lastEdit' = [valid |-> TRUE, occupation |-> catalog[i].name,
                    prenda_type |-> catalog[i].prendas[k].prenda_type,
                    size_group |-> sg, local_group |-> lg, value |-> v]
    /\ edits' = edits + 1
    /\ op' = "update_prenda_pricing"
    /\ UNCHANGED <<priceCall, resolveCall, prevResolve, docVars>>

\* A call of UnifiedConfig.get_price
GetPriceCall(prenda_type, size, cargo, local) ==
    /\ priceCall' = [valid |-> TRUE,
                     args |-> <<prenda_type, size, cargo, local>>,
                     result |-> GetPrice(catalog, prenda_type, size, cargo, local)]
    /\ op' = "get_price"
    /\ UNCHANGED <<catalog, lastEdit, edits, resolveCall, prevResolve, docVars>>

\* A call of UnifiedConfig.get_occupation
GetOccupationCall(label) ==
    /\ resolveCall' = [valid |-> TRUE, label |-> label,
                       result |-> GetOccupation(catalog, label)]
    /\ prevResolve' = resolveCall
    /\ op' = "get_occupation"
    /\ UNCHANGED <<catalog, priceCall, lastEdit, edits, docVars>>

InitPrice ==
    /\ op = "init"
    /\ catalog \in PriceCatalogs
    /\ priceCall = NoCall
    /\ lastEdit = NoEdit
    /\ edits = 0
    /\ resolveCall = NoResolve
    /\ prevResolve = NoResolve
    /\ NothingLoaded

NextPrice ==
    \/ \E i \in DOMAIN catalog :
          \E sg \in EditSizeGroups, lg \in EditLocalGroups, v \in EditValues :
             EditPrice(i, 1, sg, lg, v)
    \/ \E p \in EditArgPrendas, s \in EditArgSizes,
          c \in EditArgCargos, l \in EditArgLocals :
             GetPriceCall(p, s, c, l)

SpecPrice == InitPrice /\ [][NextPrice]_vars

NextLookup ==
    \E p \in PriceArgPrendas, s \in PriceArgSizes,
       c \in PriceArgCargos, l \in PriceArgLocals :
          GetPriceCall(p, s, c, l)

SpecLookup == InitPrice /\ [][NextLookup]_vars

NextSize ==
    \E p \in PriceArgPrendas, s \in SizeArgSizes,
       c \in PriceArgCargos, l \in PriceArgLocals :
          GetPriceCall(p, s, c, l)

SpecSize == InitPrice /\ [][NextSize]_vars

InitResolve ==
    /\ op = "init"
    /\ catalog \in ResolveCatalogs
    /\ priceCall = NoCall
    /\ lastEdit = NoEdit
    /\ edits = 0
    /\ resolveCall = NoResolve
    /\ prevResolve = NoResolve
    /\ NothingLoaded

NextResolve == \E label \in ResolveLabels : GetOccupationCall(label)

SpecResolve == InitResolve /\ [][NextResolve]_vars

----------------------------------------------------------------------------
(* Spreadsheets, options and environments the document checks run on *)

sNOMBRE == <<"N","O","M","B","R","E">>
sDNI == <<"D","N","I">>
sTALLAHeader == <<"T","A","L","L","A">>
sID == <<"I","D">>
sAna == <<"A","n","a">>
sBob == <<"B","o","b">>
sEva == <<"E","v","a">>
sStore1 == <<"S","t","o","r","e","1">>
sStore2 == <<"S","t","o","r","e","2">>
sBlank == <<" "," ">>
sFecha == <<"2","0","2","5","-","0","3","-","0","1">>
sAdmin == <<"A","d","m","i","n">>
sOutput == <<"o","u","t","p","u","t">>
sFilePath == <<"f",".","x","l","s","x">>

\* The header rows of the person table: the documented layout, one without
\* a DNI column, one with two DNI columns, one that also has a column
\* named like a garment, and none at all
StandardHeaders == <<sCARGO, sNOMBRE, sDNI, sTALLAHeader>>
NoDniHeaders == <<sCARGO, sNOMBRE, sID, sTALLAHeader>>
TwoDniHeaders == <<sCARGO, sNOMBRE, sDNI, sDNI>>
GarmentHeaders == <<sCARGO, sNOMBRE, sDNI, sTALLAHeader, sCAMISA>>

\* The person part (columns B to I) and the garment part (columns J to R)
\* of a spreadsheet row, cells not given are empty
NoCells == <<>>
AnaCells == <<sMOZO, sAna, <<"1">>, sM>>
BobCells == <<sMOZO, sBob, <<"2">>, sXL>>
EvaCells == <<sMOZO, sEva, NaN, sM>>
BobWithQuantity == <<sMOZO, sBob, <<"2">>, sXL, <<"2">> >>
OneCamisa == << <<"1">> >>

SheetRow(person, garments) == [person |-> person, garments |-> garments]

CellOf(cells, j) == IF j \in DOMAIN cells THEN cells[j] ELSE NaN

\* The grid pandas reads (header=None) from a sheet laid out as documented:
\* the three metadata cells, the header row of the person table, with
\* garments the header cells of the garment columns, and the data rows.
\* The grid ends at the last row and the last column with a value.
Sheet(sheet_name, fecha, tienda, admin, headers, garments, rows) ==
    LET value(r, c) ==
            IF r = METADATA_ROW_FECHA_SOLICITUD /\ c = METADATA_COL_FECHA_SOLICITUD
            THEN fecha
            ELSE IF r = METADATA_ROW_TIENDA /\ c = METADATA_COL_TIENDA THEN tienda
            ELSE IF r = METADATA_ROW_ADMINISTRADOR /\ c = METADATA_COL_ADMINISTRADOR
            THEN admin
            ELSE IF r = DATA_START_ROW /\ c <= MAIN_DATA_END_COLUMN
            THEN CellOf(headers, c - IGNORE_COLUMN_INDEX)
            ELSE IF r = DATA_START_ROW
            THEN (IF garments
                  THEN CellOf(UNIFORM_COLUMN_NAMES, c - UNIFORM_DATA_START_COLUMN + 1)
                  ELSE NaN)
            ELSE IF r > DATA_START_ROW /\ r - DATA_START_ROW <= Len(rows)
            THEN (IF c <= MAIN_DATA_END_COLUMN
                  THEN CellOf(rows[r - DATA_START_ROW].person, c - IGNORE_COLUMN_INDEX)
                  ELSE CellOf(rows[r - DATA_START_ROW].garments,
                              c - UNIFORM_DATA_START_COLUMN + 1))
            ELSE NaN
        used == {rc \in (0..(DATA_START_ROW + Len(rows)))
                          \X (0..UNIFORM_DATA_END_COLUMN) :
                    value(rc[1], rc[2]) # NaN}
        last(k) == CHOOSE n \in {rc[k] : rc \in used} :
                       \A rc \in used : rc[k] <= n
    IN  [sheet_name |-> sheet_name,
         nrows |-> IF used = {} THEN 0 ELSE last(1) + 1,
         ncols |-> IF used = {} THEN 0 ELSE last(2) + 1,
         cells |-> [rc \in used |-> value(rc[1], rc[2])]]

\* The sheets of the parsing check: every header row, with and without
\* garment columns, with and without a location, and every sequence of at
\* most MaxParseRows rows whose person part and garment part are empty or
\* filled independently
ParseRows ==
    {SheetRow(p, g) : p \in {NoCells, AnaCells, EvaCells}, g \in {NoCells, OneCamisa}}

ParseSheets ==
    {Sheet("S1", sFecha, tienda, sAdmin, headers, garments, rows) :
        tienda \in {NaN, sStore1},
        headers \in {NoCells, StandardHeaders, NoDniHeaders, TwoDniHeaders},
        garments \in BOOLEAN,
        rows \in SeqsUpTo(ParseRows, MaxParseRows)}

ParseWorkbooks == {<<sheet>> : sheet \in ParseSheets}

\* The sheets of the context check: garment columns present, the person
\* table with or without a column named like a garment
ContextRows ==
    {SheetRow(p, g) : p \in {AnaCells, BobWithQuantity}, g \in {NoCells, OneCamisa}}

ContextWorkbooks ==
    {<<Sheet("S1", sFecha, sStore1, sAdmin, headers, TRUE, rows)>> :
        headers \in {StandardHeaders, GarmentHeaders},
        rows \in SeqsUpTo(ContextRows, MaxContextRows)}

ContextOptions ==
    {GenerationOptions(<<sStore1>>, FALSE, cargo, autorizacion) :
        cargo \in BOOLEAN, autorizacion \in BOOLEAN}

\* The catalog of the document checks
DocumentCatalog == <<Occupation(sMOZO, <<>>, MozoPrendas)>>

\* The sheets of the generation check: the two-person sheet of a store, a
\* sheet without a location, a sheet whose location is blanks, a sheet of
\* another store with a person without DNI, and a sheet without a table
StoreSheet ==
    Sheet("S1", sFecha, sStore1, sAdmin, StandardHeaders, TRUE,
          <<SheetRow(AnaCells, OneCamisa), SheetRow(BobCells, OneCamisa)>>)
NoLocationSheet ==
    Sheet("S2", sFecha, NaN, sAdmin, StandardHeaders, TRUE,
          <<SheetRow(AnaCells, OneCamisa)>>)
BlankLocationSheet ==
    Sheet("S3", sFecha, sBlank, sAdmin, StandardHeaders, TRUE,
          <<SheetRow(BobCells, OneCamisa)>>)
MissingDniSheet ==
    Sheet("S4", sFecha, sStore2, sAdmin, StandardHeaders, TRUE,
          <<SheetRow(EvaCells, OneCamisa)>>)
EmptySheet == Sheet("S5", sFecha, sStore1, sAdmin, NoCells, FALSE, <<>>)

GenSheets ==
    {StoreSheet, NoLocationSheet, BlankLocationSheet, MissingDniSheet, EmptySheet}

GenWorkbooks == SeqsUpTo(GenSheets, MaxSheets) \ {<<>>}

\* Options omitted, every location selected (the empty and the blank one
\* too) with and without combined documents, a single kind, no kind, and
\* no location selected
AllLocales == <<sStore1, sStore2, <<>>, sBlank>>

GenOptions ==
    {NoOptions,
     GenerationOptions(AllLocales, FALSE, TRUE, TRUE),
     GenerationOptions(AllLocales, TRUE, TRUE, FALSE),
     GenerationOptions(AllLocales, FALSE, FALSE, FALSE),
     GenerationOptions(<<>>, FALSE, TRUE, TRUE)}

GenEnvironments ==
    {Environment("missing", TRUE, TRUE, {}),
     Environment("errors", TRUE, TRUE, {}),
     Environment("none", TRUE, TRUE, {}),
     Environment("none", FALSE, TRUE, {}),
     Environment("none", TRUE, FALSE, {}),
     Environment("none", TRUE, TRUE, {sAUTORIZACION, sCARGO})}

\* The sheets, options and environments of the location check
LocaleSheets == {StoreSheet, NoLocationSheet, BlankLocationSheet}

LocaleWorkbooks == SeqsUpTo(LocaleSheets, MaxSheets) \ {<<>>}

LocaleOptions ==
    {NoOptions,
     GenerationOptions(AllLocales, FALSE, TRUE, TRUE),
     GenerationOptions(AllLocales, TRUE, FALSE, TRUE),
     GenerationOptions(<<>>, FALSE, TRUE, TRUE)}

LocaleEnvironments ==
    {Environment("none", TRUE, TRUE, {}),
     Environment("none", TRUE, TRUE, {sCARGO})}

\* The files of the loading check: no path, a path to nothing, a file
\* pd.ExcelFile cannot open, and every file of at most MaxLoadSheets
\* sheets, each readable or not: the store's sheet, a sheet with a person
\* without DNI, a sheet with two DNI columns, a sheet without a table and
\* a sheet without a location
TwoDniSheet ==
    Sheet("S6", sFecha, sStore1, sAdmin, TwoDniHeaders, TRUE,
          <<SheetRow(AnaCells, OneCamisa)>>)

LoadSheets ==
    {FileSheet(readable, grid) :
        readable \in BOOLEAN,
        grid \in {StoreSheet, MissingDniSheet, TwoDniSheet, EmptySheet,
                  NoLocationSheet}}

LoadFiles ==
    {ExcelFile(<<>>, FALSE, FALSE, <<>>),
     ExcelFile(sFilePath, FALSE, FALSE, <<>>),
     ExcelFile(sFilePath, TRUE, FALSE, <<>>)}
    \cup {ExcelFile(sFilePath, TRUE, TRUE, sheets) :
             sheets \in SeqsUpTo(LoadSheets, MaxLoadSheets) \ {<<>>}}

\* The files of the metadata check: one sheet, readable or not, with each
\* of the three metadata cells filled or empty, without a table, with the
\* documented header row or with two DNI columns, and with no person, a
\* person or a person without DNI. A sheet whose last cells are empty is
\* read as a smaller grid
MetadataFiles ==
    {ExcelFile(sFilePath, TRUE, TRUE,
               <<FileSheet(readable,
                           Sheet("S1", fecha, tienda, admin, headers, FALSE, rows))>>) :
        readable \in BOOLEAN,
        fecha \in {NaN, sFecha}, tienda \in {NaN, sStore1}, admin \in {NaN, sAdmin},
        headers \in {NoCells, StandardHeaders, TwoDniHeaders},
        rows \in {<<>>, <<SheetRow(AnaCells, NoCells)>>,
                  <<SheetRow(EvaCells, NoCells)>>}}

\* The files, options and faults of the failure check: the store's sheet
\* alone, and with the sheet of another store before or after it; both
\* kinds or one, with and without combined documents; at most one builder,
\* one render and one composition that raise
FaultWorkbooks ==
    {<<StoreSheet>>, <<StoreSheet, MissingDniSheet>>, <<MissingDniSheet, StoreSheet>>}

FaultOptions ==
    {GenerationOptions(AllLocales, combine, TRUE, TRUE) : combine \in BOOLEAN}
    \cup {GenerationOptions(AllLocales, TRUE, TRUE, FALSE)}

FaultEnvironments ==
    {FaultyEnvironment(Faults(unbuilt, unrendered, unmerged, fallback)) :
        unbuilt \in {{}, {<<sAna, sAUTORIZACION>>}, {<<sBob, sCARGO>>}},
        unrendered \in {{}, {<<sAna, sAUTORIZACION>>}, {<<sAna, sCARGO>>}},
        unmerged \in {{}, {<<sStore1, sAUTORIZACION>>}, {<<sStore1, sCARGO>>},
                      {<<sStore2, sAUTORIZACION>>}},
        fallback \in BOOLEAN}

\* The catalog and the sheets of the amount check: an occupation with a
\* sized and a one-size garment, each with nine distinct price points; one
\* person of size M or XL, with a known or an unknown occupation, in a
\* store of either location group, with no, 0, 1 or 3 shirts and with or
\* without an apron
AmountCatalog ==
    <<Occupation(sMOZO, <<>>, <<OccupationPrenda(sCAMISA, DensePrices(10)),
                                OccupationPrenda(sMANDILON, DensePrices(40))>>)>>

AmountWorkbooks ==
    {<<Sheet("S1", sFecha, tienda, sAdmin, StandardHeaders, TRUE,
             <<SheetRow(<<cargo, sBob, <<"2">>, talla>>,
                        <<camisa, NaN, mandilon>>)>>)>> :
        tienda \in {sStore1, sTARAPOTO},
        cargo \in {sMOZO, sXYZ},
        talla \in {sM, sXL},
        camisa \in {NaN, <<"0">>, <<"1">>, <<"3">>},
        mandilon \in {NaN, <<"1">>}}

AmountOptions == {GenerationOptions(<<sStore1>>, FALSE, TRUE, TRUE)}

\* The catalog, the sheets and the options of the default-occupation
\* check: the default occupation is not the first entry and its prices
\* differ from those of the other entry; the one person of the sheet has
\* the occupation by name, in lower case, by a synonym of the other entry,
\* a text no entry has, blanks or nothing, or the sheet has no occupation
\* column; with and without a shirt
DefaultCatalog ==
    <<Occupation(sPackerMixed, <<sPKR>>, PackerPrendas),
      Occupation(sMOZO, <<>>, MozoPrendas)>>

NoCargoHeaders == <<sID, sNOMBRE, sDNI, sTALLAHeader>>

DefaultWorkbooks ==
    {<<Sheet("S1", sFecha, tienda, sAdmin, headers, TRUE,
             <<SheetRow(<<cargo, sBob, <<"2">>, talla>>, <<camisa>>)>>)>> :
        tienda \in {sStore1, sTARAPOTO},
        headers \in {StandardHeaders, NoCargoHeaders},
        cargo \in {sMOZO, sMozoLower, sPKR, sXYZ, sBlank, NaN},
        talla \in {sM, sXL},
        camisa \in {NaN, <<"1">>}}

\* The sheets of the name check, one person each: a first-name column
\* alone, first-name and last-name columns, a combined column, a combined
\* column after a first-name column, columns with the English keys, and no
\* name column; every name cell filled or empty
sAPELLIDO == <<"A","P","E","L","L","I","D","O">>
sNombreApellido == sNOMBRE \o <<" ">> \o sAPELLIDO
sNAME == <<"N","A","M","E">>
sLAST == <<"L","A","S","T">>
sDiaz == <<"D","i","a","z">>
sAnaDiaz == sAna \o <<" ">> \o sDiaz

NameLayouts ==
    {<<sCARGO, sNOMBRE, sDNI, sTALLAHeader>>,
     <<sCARGO, sNOMBRE, sAPELLIDO, sDNI>>,
     <<sCARGO, sNombreApellido, sDNI, sTALLAHeader>>,
     <<sCARGO, sNOMBRE, sNombreApellido, sDNI>>,
     <<sCARGO, sNAME, sLAST, sDNI>>,
     <<sCARGO, sID, sDNI, sTALLAHeader>>}

NameWorkbooks ==
    {<<Sheet("S1", sFecha, sStore1, sAdmin, headers, TRUE,
             <<SheetRow(<<sMOZO, second, third, <<"1">> >>, OneCamisa)>>)>> :
        headers \in NameLayouts,
        second \in {NaN, sAna, sAnaDiaz},
        third \in {NaN, sDiaz, sAnaDiaz, <<"1">>}}

\* The sheets of the garment-list check, one person each, with or without
\* a size: the quantity of the shirt empty, 0, 1, 2.0, negative, a word or
\* an infinity; the cap of the packer empty, 1 or an infinity; the apron,
\* the delivery cap and the packer shirt empty or filled; and a sheet
\* without garment columns
sInf == <<"i","n","f">>

GarmentWorkbooks ==
    {<<Sheet("S1", sFecha, sStore1, sAdmin, StandardHeaders, TRUE,
             <<SheetRow(<<sMOZO, sAna, <<"1">>, talla>>,
                        <<camisa, NaN, mandilon, NaN, NaN, NaN, dgorro, pgorra,
                          ppolo>>)>>)>> :
        talla \in {NaN, sM},
        camisa \in {NaN, <<"0">>, <<"1">>, <<"2",".","0">>, <<"-","1">>, <<"x">>, sInf},
        mandilon \in {NaN, <<"1">>},
        dgorro \in {NaN, <<"1">>},
        pgorra \in {NaN, <<"1">>, sInf},
        ppolo \in {NaN, <<"3">>}}
    \cup {<<Sheet("S1", sFecha, sStore1, sAdmin, StandardHeaders, FALSE,
                  <<SheetRow(AnaCells, NoCells)>>)>>}

GarmentOptions ==
    {GenerationOptions(<<sStore1>>, FALSE, TRUE, TRUE),
     GenerationOptions(<<sStore1>>, FALSE, TRUE, FALSE)}

DefaultOptions ==
    {GenerationOptions(<<sStore1>>, FALSE, TRUE, TRUE),
     GenerationOptions(<<sStore1>>, FALSE, FALSE, TRUE)}

\* The files, options and environments of the repetition check: one or
\* two stores; both kinds or one, without and with combined documents; no
\* fault or one render that raises
TwiceWorkbooks == {<<StoreSheet>>, <<StoreSheet, MissingDniSheet>>}

TwiceOptions ==
    {GenerationOptions(AllLocales, FALSE, TRUE, TRUE),
     GenerationOptions(AllLocales, FALSE, FALSE, TRUE),
     GenerationOptions(AllLocales, TRUE, TRUE, TRUE)}

TwiceEnvironments ==
    {FaultyEnvironment(NoFaults),
     FaultyEnvironment(Faults({}, {<<sAna, sCARGO>>}, {}, TRUE))}

\* The sheets, options and environment of the scenario check: every person
\* has one shirt; the two-person sheet of a store, a sheet of the same
\* store with a second Ana of another size, a sheet of another store and a
\* sheet with a person without a name; one kind enabled, no combined
\* documents, every location or one selected; nothing fails
SameNameSheet ==
    Sheet("S7", sFecha, sStore1, sAdmin, StandardHeaders, TRUE,
          <<SheetRow(<<sMOZO, sAna, <<"3">>, sXL>>, OneCamisa)>>)
NamelessSheet ==
    Sheet("S8", sFecha, sStore1, sAdmin, StandardHeaders, TRUE,
          <<SheetRow(<<sMOZO, NaN, <<"4">>, sM>>, OneCamisa)>>)

ScenarioSheets == {StoreSheet, SameNameSheet, MissingDniSheet, NamelessSheet}

ScenarioWorkbooks == SeqsUpTo(ScenarioSheets, MaxSheets) \ {<<>>}

ScenarioOptions ==
    {GenerationOptions(selected_locales, FALSE, cargo_enabled, ~cargo_enabled) :
        selected_locales \in {AllLocales, <<sStore1>>},
        cargo_enabled \in BOOLEAN}

ScenarioEnvironments == {Environment("none", TRUE, TRUE, {})}

\* The sheets of the check of omitted options: the sheets of the generation
\* and the scenario checks and a sheet whose location has a blank before
\* and after the text
sStore2Padded == <<" ">> \o sStore2 \o <<" ">>

PaddedLocationSheet ==
    Sheet("S9", sFecha, sStore2Padded, sAdmin, StandardHeaders, TRUE,
          <<SheetRow(BobCells, OneCamisa)>>)

OmittedSheets ==
    {StoreSheet, PaddedLocationSheet, MissingDniSheet, NoLocationSheet,
     BlankLocationSheet, EmptySheet, SameNameSheet, NamelessSheet}

OmittedWorkbooks == SeqsUpTo(OmittedSheets, MaxSheets) \ {<<>>}

\* The sheets of the validation check: the sheets of the generation
\* check, and sheets whose occupation column is labelled cargo, with a
\* value, without one, and twice
LowerCargoHeaders == <<scargo, sNOMBRE, sDNI, sTALLAHeader>>
TwoCargoHeaders == <<scargo, scargo, sDNI, sTALLAHeader>>

LowerCargoSheet ==
    Sheet("S10", sFecha, sStore1, sAdmin, LowerCargoHeaders, TRUE,
          <<SheetRow(AnaCells, OneCamisa)>>)
LowerCargoEmptySheet ==
    Sheet("S11", sFecha, sStore1, sAdmin, LowerCargoHeaders, TRUE,
          <<SheetRow(<<NaN, sAna, <<"1">>, sM>>, OneCamisa),
            SheetRow(<<sBlank, sBob, <<"2">>, sXL>>, OneCamisa)>>)
TwoCargoSheet ==
    Sheet("S12", sFecha, sStore1, sAdmin, TwoCargoHeaders, TRUE,
          <<SheetRow(<<NaN, NaN, <<"1">>, sM>>, OneCamisa)>>)

ValidateSheets ==
    GenSheets \cup {LowerCargoSheet, LowerCargoEmptySheet, TwoCargoSheet}

ValidateWorkbooks == SeqsUpTo(ValidateSheets, MaxSheets) \ {<<>>}

\* AppConfig.destination_path
destination_path == <<sOutput>>

----------------------------------------------------------------------------
(* Loading, context building and generation *)

\* A call of ExcelService.load_excel_file. One file is loaded per run of
\* the program: loading replaces the data wholesale, so a second file
\* behaves as the first file of a fresh run. When the call raises, the
\* caller keeps what it had
LoadExcelFileFrom(file) ==
    /\ ~loadCall.valid
    /\ \E loaded \in {LoadResult(file)} :
          /\ loadCall' = [valid |-> TRUE, file |-> file,
                          raised |-> loaded.raised, message |-> loaded.message]
          /\ workbook' = IF loaded.raised THEN workbook
                         ELSE [i \in DOMAIN file.sheets |-> file.sheets[i].grid]
          /\ excel_data' = IF loaded.raised THEN excel_data ELSE loaded.worksheets
    /\ op' = "load_excel_file"
    /\ UNCHANGED <<priceVars, contextCall, disk, genResult, genCall, genGroups,
                   prevGen, today, runs, workers, validateCall>>

\* load_excel_file on a file that opens and whose sheets can all be read
LoadExcelFile(wb) ==
    LoadExcelFileFrom(ExcelFile(sFilePath, TRUE, TRUE,
                                [i \in DOMAIN wb |-> FileSheet(TRUE, wb[i])]))

\* A call of FileGenerationService._build_person_contexts for row r of the
\* person table of sheet i
BuildPersonContextsCall(i, r, options) ==
    /\ i \in DOMAIN excel_data
    /\ ~excel_data[i].data.isNone
    /\ r \in DOMAIN excel_data[i].data.rows
    /\ contextCall' =
          [valid |-> TRUE, sheet |-> i, row |-> r, options |-> options,
           person_contexts |->
               BuildPersonContexts(catalog, RowOf(excel_data[i].data, r),
                                   excel_data[i], options)]
    /\ op' = "_build_person_contexts"
    /\ UNCHANGED <<priceVars, workbook, excel_data, loadCall, disk, genResult,
                   genCall, genGroups, prevGen, today, runs, workers, validateCall>>

\* A call of ExcelService.validate_excel_data on the loaded data
ValidateExcelDataCall ==
    /\ loadCall.valid
    /\ \E result \in {ValidateExcelData(excel_data)} :
          validateCall' = [valid |-> TRUE, raised |-> FALSE,
                           is_valid |-> result.is_valid,
                           errors |-> result.errors,
                           warnings |-> result.warnings]
    /\ op' = "validate_excel_data"
    /\ UNCHANGED <<priceVars, workbook, excel_data, loadCall, contextCall, disk,
                   genResult, genCall, genGroups, prevGen, today, runs, workers>>

\* A call of FileGenerationService.generate_files on the loaded data
GenerateFilesRun(options, env) ==
    /\ \E done \in {GenerateFiles(catalog, excel_data, destination_path, options,
                                   disk, env)} :
          /\ genResult' = done.result
          /\ disk' = done.files
          /\ genGroups' = done.tienda_to_rows
    /\ genCall' = [valid |-> TRUE, options |-> options, env |-> env,
                   today |-> today, sheets |-> Len(excel_data)]
    /\ prevGen' = [call |-> genCall, result |-> genResult, disk |-> disk]
    /\ runs' = runs + 1
    /\ op' = "generate_files"
    /\ UNCHANGED <<priceVars, workbook, excel_data, loadCall, contextCall, today,
                   workers, validateCall>>

\* The one generate_files call of a run of the program
GenerateFilesCall(options, env) ==
    runs < MaxRuns /\ GenerateFilesRun(options, env)

\* A generate_files call that may follow another one
GenerateFilesAgain(options, env) ==
    runs < MaxRepeats /\ GenerateFilesRun(options, env)

\* The system clock passes midnight
Midnight ==
    /\ today < MaxDays
    /\ today' = today + 1
    /\ op' = "midnight"
    /\ UNCHANGED <<priceVars, workbook, excel_data, loadCall, contextCall, disk,
                   genResult, genCall, genGroups, prevGen, runs, workers,
                   validateCall>>

\* The steps of a worker that generates the CARGO documents of the people
\* of one locale: the destination, the folder of the locale, and for every
\* person the folder and the render
WorkerPlan(dest_path, tienda, names) ==
    <<[kind |-> "mkdir", path |-> dest_path, content |-> <<>>],
      [kind |-> "mkdir", path |-> TiendaFolder(dest_path, tienda), content |-> <<>>]>>
    \o Flatten([n \in DOMAIN names |->
          <<[kind |-> "mkdir",
             path |-> PersonFolder(TiendaFolder(dest_path, tienda), names[n]),
             content |-> <<>>],
            [kind |-> "render",
             path |-> DocumentPath(PersonFolder(TiendaFolder(dest_path, tienda),
                                                names[n]),
                                   sCARGO, "nombre" :> names[n]),
             content |-> [template_type |-> sCARGO,
                          context |-> ("nombre" :> names[n])]]>>])

\* A worker at the start of its plan
Worker(plan) ==
    [plan |-> plan, pc |-> 1, stack |-> <<>>, raised |-> FALSE, met |-> {}]

\* The worker has steps left
Running(w) ==
    /\ w \in DOMAIN workers
    /\ ~workers[w].raised
    /\ workers[w].pc <= Len(workers[w].plan)

\* Worker w makes one os.mkdir attempt of the mkdir call it is in. The
\* call and the calls it makes for the parents are a stack; a call for a
\* parent is followed by a second attempt at the path, without parents
MkdirStep(w) ==
    /\ Running(w)
    /\ workers[w].plan[workers[w].pc].kind = "mkdir"
    /\ LET me == workers[w]
           stack == IF me.stack = <<>>
                    THEN <<MkdirCall(me.plan[me.pc].path, TRUE)>> ELSE me.stack
           call == Head(stack)
           outcome == OsMkdir(disk, call)
           rest == Tail(stack)
       IN  /\ disk' = IF outcome = "created" THEN disk \cup {Dir(call.path)}
                       ELSE disk
           /\ workers' = [workers EXCEPT ![w] =
                 IF outcome = "raise" THEN [me EXCEPT !.raised = TRUE, !.stack = stack]
                 ELSE IF outcome = "no_parent"
                 THEN [me EXCEPT !.stack = <<MkdirCall(Parent(call.path), TRUE),
                                             MkdirCall(call.path, FALSE)>> \o rest]
                 ELSE [me EXCEPT !.stack = rest,
                                 !.pc = IF rest = <<>> THEN @ + 1 ELSE @,
                                 !.met = IF outcome = "exists"
                                         THEN @ \cup {call.path} ELSE @]]
    /\ op' = "mkdir"
    /\ UNCHANGED <<priceVars, workbook, excel_data, loadCall, contextCall,
                   genResult, genCall, genGroups, prevGen, today, runs,
                   validateCall>>

\* Worker w renders the document of its step
RenderStep(w) ==
    /\ Running(w)
    /\ workers[w].plan[workers[w].pc].kind = "render"
    /\ disk' = Save(disk, workers[w].plan[workers[w].pc].path,
                    workers[w].plan[workers[w].pc].content)
    /\ workers' = [workers EXCEPT ![w].pc = @ + 1]
    /\ op' = "render"
    /\ UNCHANGED <<priceVars, workbook, excel_data, loadCall, contextCall,
                   genResult, genCall, genGroups, prevGen, today, runs,
                   validateCall>>

\* The workers of the folder check: each has a locale and one or two
\* people of it, the two people with the same or with different names.
\* The destination is missing, is there, or is a file
WorkerPlans ==
    {WorkerPlan(destination_path, tienda, names) :
        tienda \in {sStore1, sStore2},
        names \in {<<sAna>>, <<sBob>>, <<sAna, sAna>>, <<sAna, sBob>>}}

WorkerDisks == {{}, {Dir(destination_path)}, {File(destination_path, <<>>)}}

InitFolders ==
    /\ op = "init"
    /\ catalog = DocumentCatalog
    /\ priceCall = NoCall
    /\ lastEdit = NoEdit
    /\ edits = 0
    /\ resolveCall = NoResolve
    /\ prevResolve = NoResolve
    /\ workbook = <<>>
    /\ excel_data = <<>>
    /\ loadCall = NoLoadCall
    /\ contextCall = NoContextCall
    /\ disk \in WorkerDisks
    /\ genResult = NoResult
    /\ genCall = NoGenCall
    /\ genGroups = <<>>
    /\ prevGen = [call |-> NoGenCall, result |-> NoResult, disk |-> {}]
    /\ today = 1
    /\ runs = 0
    /\ workers \in {[w \in 1..MaxWorkers |-> Worker(plans[w])] :
                        plans \in [1..MaxWorkers -> WorkerPlans]}
    /\ validateCall = NoValidateCall

NextFolders ==
    \/ \E w \in 1..MaxWorkers : MkdirStep(w)
    \/ \E w \in 1..MaxWorkers : RenderStep(w)

SpecFolders == InitFolders /\ [][NextFolders]_vars

InitDocuments ==
    /\ op = "init"
    /\ catalog = DocumentCatalog
    /\ priceCall = NoCall
    /\ lastEdit = NoEdit
    /\ edits = 0
    /\ resolveCall = NoResolve
    /\ prevResolve = NoResolve
    /\ NothingLoaded

NextLoad == \E file \in LoadFiles : LoadExcelFileFrom(file)

SpecLoad == InitDocuments /\ [][NextLoad]_vars

NextMetadata == \E file \in MetadataFiles : LoadExcelFileFrom(file)

SpecMetadata == InitDocuments /\ [][NextMetadata]_vars

NextFault ==
    \/ \E wb \in FaultWorkbooks : LoadExcelFile(wb)
    \/ \E options \in FaultOptions, env \in FaultEnvironments :
          runs = 0 /\ GenerateFilesCall(options, env)

SpecFault == InitDocuments /\ [][NextFault]_vars

InitAmount ==
    /\ op = "init"
    /\ catalog = AmountCatalog
    /\ priceCall = NoCall
    /\ lastEdit = NoEdit
    /\ edits = 0
    /\ resolveCall = NoResolve
    /\ prevResolve = NoResolve
    /\ NothingLoaded

NextAmount ==
    \/ \E wb \in AmountWorkbooks : LoadExcelFile(wb)
    \/ \E i \in DOMAIN excel_data : \E options \in AmountOptions :
          BuildPersonContextsCall(i, 1, options)

SpecAmount == InitAmount /\ [][NextAmount]_vars

InitDefault ==
    /\ op = "init"
    /\ catalog = DefaultCatalog
    /\ priceCall = NoCall
    /\ lastEdit = NoEdit
    /\ edits = 0
    /\ resolveCall = NoResolve
    /\ prevResolve = NoResolve
    /\ NothingLoaded

NextDefault ==
    \/ \E wb \in DefaultWorkbooks : LoadExcelFile(wb)
    \/ \E i \in DOMAIN excel_data : \E options \in DefaultOptions :
          BuildPersonContextsCall(i, 1, options)

SpecDefault == InitDefault /\ [][NextDefault]_vars

NextGarments ==
    \/ \E wb \in GarmentWorkbooks : LoadExcelFile(wb)
    \/ \E i \in DOMAIN excel_data : \E options \in GarmentOptions :
          BuildPersonContextsCall(i, 1, options)

SpecGarments == InitDocuments /\ [][NextGarments]_vars

NextName ==
    \/ \E wb \in NameWorkbooks : LoadExcelFile(wb)
    \/ \E i \in DOMAIN excel_data : \E options \in DefaultOptions :
          BuildPersonContextsCall(i, 1, options)

SpecName == InitDocuments /\ [][NextName]_vars

NextTwice ==
    \/ \E wb \in TwiceWorkbooks : LoadExcelFile(wb)
    \/ \E options \in TwiceOptions, env \in TwiceEnvironments :
          GenerateFilesAgain(options, env)
    \/ Midnight

SpecTwice == InitDocuments /\ [][NextTwice]_vars

NextScenario ==
    \/ \E wb \in ScenarioWorkbooks : LoadExcelFile(wb)
    \/ \E options \in ScenarioOptions, env \in ScenarioEnvironments :
          GenerateFilesCall(options, env)

SpecScenario == InitDocuments /\ [][NextScenario]_vars

NextParse == \E wb \in ParseWorkbooks : LoadExcelFile(wb)

SpecParse == InitDocuments /\ [][NextParse]_vars

NextContext ==
    \/ \E wb \in ContextWorkbooks : LoadExcelFile(wb)
    \/ \E i \in DOMAIN excel_data : \E r \in 1..MaxContextRows :
          \E options \in ContextOptions : BuildPersonContextsCall(i, r, options)

SpecContext == InitDocuments /\ [][NextContext]_vars

NextValidate ==
    \/ \E wb \in ValidateWorkbooks : LoadExcelFile(wb)
    \/ ValidateExcelDataCall

SpecValidate == InitDocuments /\ [][NextValidate]_vars

NextOmitted ==
    \/ \E wb \in OmittedWorkbooks : LoadExcelFile(wb)
    \/ \E env \in ScenarioEnvironments : GenerateFilesCall(NoOptions, env)

SpecOmitted == InitDocuments /\ [][NextOmitted]_vars

Next ==
    \/ \E wb \in GenWorkbooks : LoadExcelFile(wb)
    \/ \E options \in GenOptions, env \in GenEnvironments :
          GenerateFilesCall(options, env)

Spec == InitDocuments /\ [][Next]_vars

NextLocale ==
    \/ \E wb \in LocaleWorkbooks : LoadExcelFile(wb)
    \/ \E options \in LocaleOptions, env \in LocaleEnvironments :
          GenerateFilesCall(options, env)

SpecLocale == InitDocuments /\ [][NextLocale]_vars

----------------------------------------------------------------------------
(* Claims about the price lookup and the occupation resolution *)

\* The labels (canonical name and synonyms) of one occupation
Labels(o) == {o.name} \cup {o.synonyms[k] : k \in DOMAIN o.synonyms}

\* Some occupation carries the label, compared as the claim says: ignoring
\* letter case
OccupationKnown(occupations, cargo) ==
    \E i \in DOMAIN occupations : \E a \in Labels(occupations[i]) :
        Upper(a) = Strip(Upper(cargo))

\* Some occupation of the catalog lists the garment type
GarmentKnown(occupations, prenda) ==
    \E i \in DOMAIN occupations : \E k \in DOMAIN occupations[i].prendas :
        Upper(occupations[i].prendas[k].prenda_type) = Strip(Upper(prenda))

\* An occupation carrying the label lists the garment type
GarmentPricedFor(occupations, cargo, prenda) ==
    \E i \in DOMAIN occupations :
        /\ \E a \in Labels(occupations[i]) : Upper(a) = Strip(Upper(cargo))
        /\ \E k \in DOMAIN occupations[i].prendas :
              Upper(occupations[i].prendas[k].prenda_type) = Strip(Upper(prenda))

SizeKnown(size) == Strip(Upper(size)) \in {sS, sM, sL, sXL, sXXL}

LocationKnown(local) ==
    \/ Contains(sTARAPOTO, Upper(local))
    \/ Contains(Upper(sSanIsidro), Upper(local))
    \/ Contains(sSAN_ISIDRO, Upper(local))

\* C3 (as stated): a price call whose garment type, occupation, size or
\* location is unknown to the catalog returns 0.
C3_UnknownAnythingIsZero ==
    priceCall.valid =>
        LET a == priceCall.args
        IN  (\/ ~GarmentKnown(catalog, a[1])
             \/ ~SizeKnown(a[2])
             \/ ~OccupationKnown(catalog, a[3])
             \/ ~LocationKnown(a[4])) => priceCall.result = 0

\* C3 (amended): a price call returns 0 whenever the occupation is unknown
\* to the catalog or the garment type is not listed for the occupation;
\* an unknown size or location alone does not make the price 0.
C3_UnknownOccupationOrGarmentIsZero ==
    priceCall.valid =>
        LET a == priceCall.args
        IN  (\/ ~OccupationKnown(catalog, a[3])
             \/ ~GarmentPricedFor(catalog, a[3], a[1])) => priceCall.result = 0

\* C3 witness: a call for a listed garment and a known size and location
\* with an occupation no entry carries has returned 0.
C3_Witness ==
    /\ priceCall.valid
    /\ GarmentKnown(catalog, priceCall.args[1])
    /\ SizeKnown(priceCall.args[2])
    /\ ~OccupationKnown(catalog, priceCall.args[3])
    /\ LocationKnown(priceCall.args[4])
    /\ priceCall.result = 0

\* The garment entries a price call's occupation and garment type find:
\* those of the occupation the label resolves to whose type is the type
\* asked for
EntriesFound(args) ==
    LET occupation == GetOccupation(catalog, Strip(Upper(args[3])))
    IN  IF occupation = NoOccupation THEN {}
        ELSE {occupation.prendas[k] :
                 k \in {j \in DOMAIN occupation.prendas :
                           /\ Upper(occupation.prendas[j].prenda_type)
                                 = Strip(Upper(args[1]))
                           /\ \A i \in 1..(j - 1) :
                                 Upper(occupation.prendas[i].prenda_type)
                                     # Strip(Upper(args[1]))}}

\* The price point a raw size stands for: XL and XXL their own, every
\* other text the S/M/L one; case and blanks around the text do not count
SizePoint(raw) ==
    IF Strip(Upper(raw)) = sXL THEN "xl"
    ELSE IF Strip(Upper(raw)) = sXXL THEN "xxl"
    ELSE "sml"

\* C22: a price call that finds the occupation and the garment entry
\* returns the entry's price point of the size (S/M/L for S, M, L and for
\* every other or empty text, XL for XL, XXL for XXL, case and blanks
\* around the text ignored) and of the location group of the call.
C22_PriceBySizeGroup ==
    priceCall.valid =>
        \A entry \in EntriesFound(priceCall.args) :
            priceCall.result
                = entry.price[<<SizePoint(priceCall.args[2]),
                                DetermineLocalGroup(Strip(Upper(priceCall.args[4])))>>]

\* A call with the size " xl " found its entry and returned the entry's
\* XL price point, which is not the price of S/M/L and not that of XXL
C22_Witness ==
    /\ priceCall.valid
    /\ priceCall.args[2] = sXlPadded
    /\ \E entry \in EntriesFound(priceCall.args) :
          \E lg \in LocalGroups :
             /\ priceCall.result = entry.price[<<"xl", lg>>]
             /\ priceCall.result # entry.price[<<"sml", lg>>]
             /\ priceCall.result # entry.price[<<"xxl", lg>>]

CanonSize(sg) == CASE sg = "sml" -> sM [] sg = "xl" -> sXL [] OTHER -> sXXL
CanonLocal(lg) ==
    CASE lg = "other" -> sLIMA [] lg = "tarapoto" -> sTARAPOTO [] OTHER -> sSAN_ISIDRO

\* The call asks for exactly the price point the edit wrote
AsksEditedPoint(args, e) ==
    /\ e.valid
    /\ Upper(args[1]) = Upper(e.prenda_type)
    /\ args[2] = CanonSize(e.size_group)
    /\ Upper(args[3]) = Upper(e.occupation)
    /\ args[4] = CanonLocal(e.local_group)

\* C4: a price call leaves the catalog unchanged; a call that repeats the
\* arguments of the call just before it (no edit between them) returns the
\* same value; a call for the price point written by the latest edit
\* returns the edited value.
C4_PricePure ==
    [][op' = "get_price" =>
         /\ catalog' = catalog
         /\ (op = "get_price" /\ priceCall'.args = priceCall.args
                => priceCall'.result = priceCall.result)
         /\ (AsksEditedPoint(priceCall'.args, lastEdit)
                => priceCall'.result = lastEdit.value)]_vars

\* C4 witness: a price point was edited and the call that followed the edit
\* asked for that point and got the edited value.
C4_Witness ==
    /\ op = "get_price"
    /\ AsksEditedPoint(priceCall.args, lastEdit)
    /\ priceCall.result = lastEdit.value
    /\ lastEdit.value \in EditValues

\* C5 (as stated): for every catalog, a label equal (ignoring case) to a
\* synonym of O resolves to the same entry as a label equal (ignoring case)
\* to the canonical name of O, and a label equal (ignoring case) to no name
\* and no synonym resolves to none.
C5_SynonymResolvesLikeName ==
    /\ \A i \in DOMAIN catalog : \A k \in DOMAIN catalog[i].synonyms :
          (/\ resolveCall.valid /\ prevResolve.valid
           /\ Upper(resolveCall.label) = Upper(catalog[i].synonyms[k])
           /\ Upper(prevResolve.label) = Upper(catalog[i].name))
          => resolveCall.result = prevResolve.result
    /\ (/\ resolveCall.valid
        /\ \A i \in DOMAIN catalog : \A a \in Labels(catalog[i]) :
              Upper(resolveCall.label) # Upper(a))
       => resolveCall.result = NoOccupation

\* No label of entry i equals, ignoring case, a label of an earlier entry
NoEarlierClash(occupations, i) ==
    \A j \in 1..(i - 1) :
        \A a \in Labels(occupations[i]), b \in Labels(occupations[j]) :
            Upper(a) # Upper(b)

\* The labels of entry i are stored without surrounding blanks
StoredTrimmed(occupations, i) ==
    \A a \in Labels(occupations[i]) : Strip(a) = a

\* C5 (amended): when no label of O equals (ignoring case) a label of an
\* entry listed before O and the labels of O are stored without surrounding
\* blanks, a label that once trimmed equals (ignoring case) a synonym of O
\* and a label that once trimmed equals the canonical name of O both
\* resolve to O; a label that once trimmed equals no name and no synonym
\* resolves to none.
C5_SynonymResolvesToOwner ==
    /\ \A i \in DOMAIN catalog : \A k \in DOMAIN catalog[i].synonyms :
          (/\ resolveCall.valid /\ prevResolve.valid
           /\ NoEarlierClash(catalog, i) /\ StoredTrimmed(catalog, i)
           /\ Strip(Upper(resolveCall.label)) = Upper(catalog[i].synonyms[k])
           /\ Strip(Upper(prevResolve.label)) = Upper(catalog[i].name))
          => /\ resolveCall.result = catalog[i]
             /\ prevResolve.result = catalog[i]
    /\ (/\ resolveCall.valid
        /\ \A i \in DOMAIN catalog : \A a \in Labels(catalog[i]) :
              Strip(Upper(resolveCall.label)) # Upper(a))
       => resolveCall.result = NoOccupation

\* C5 witness: the synonym PKR typed in lower case with blanks around it and
\* the canonical name typed in lower case have both resolved to the entry
\* that owns them, which is not the first entry of the catalog.
C5_Witness ==
    \E i \in DOMAIN catalog :
        /\ i > 1
        /\ NoEarlierClash(catalog, i)
        /\ catalog[i].name = sMOZO
        /\ InList(sPKR, catalog[i].synonyms)
        /\ resolveCall.valid /\ resolveCall.label = sPkrPadded
        /\ prevResolve.valid /\ prevResolve.label = sMozoLower
        /\ resolveCall.result = catalog[i]
        /\ prevResolve.result = catalog[i]

\* Entry b is the only entry of the catalog with its canonical name, and
\* the label, ignoring case and the blanks around it, is that name and
\* also a synonym of another entry
NameOfOneSynonymOfAnother(occupations, label, b) ==
    /\ Upper(occupations[b].name) = Strip(Upper(label))
    /\ \A c \in DOMAIN occupations \ {b} :
          Upper(occupations[c].name) # Upper(occupations[b].name)
    /\ \E a \in DOMAIN occupations \ {b} :
          \E k \in DOMAIN occupations[a].synonyms :
             Upper(occupations[a].synonyms[k]) = Strip(Upper(label))

\* C23 (as stated): a label that equals, ignoring case, the canonical name
\* of entry B and is also a synonym of another entry A resolves to B,
\* whatever the order of A and B in the catalog.
C23_CanonicalNameFirst ==
    resolveCall.valid =>
        \A b \in DOMAIN catalog :
            NameOfOneSynonymOfAnother(catalog, resolveCall.label, b)
                => resolveCall.result = catalog[b]

----------------------------------------------------------------------------
(* Claims about sheet parsing and document contexts *)

\* The spreadsheet rows below the header row that hold a value in the
\* columns c0..c1 of the grid, read off the grid itself
FilledRows(sd, c0, c1) ==
    {r \in (DATA_START_ROW + 1)..(sd.nrows - 1) :
        \E c \in c0..c1 : Cell(sd, r, c) # NaN}

PersonRowsOf(sd) == FilledRows(sd, IGNORE_COLUMN_INDEX + 1, MAIN_DATA_END_COLUMN)
GarmentRowsOf(sd) ==
    FilledRows(sd, UNIFORM_DATA_START_COLUMN, UNIFORM_DATA_END_COLUMN)

\* The k-th row, from the top, of a set of spreadsheet rows
NthRow(rows, k) == CHOOSE r \in rows : Cardinality({q \in rows : q < r}) = k - 1

\* C1: whenever a sheet has a garment table, the table has no more rows
\* than the cleaned person table: if the grid has at least as many
\* non-empty garment rows as non-empty person rows, the table is exactly the
\* first person-count non-empty garment rows, in order; otherwise it is all
\* the non-empty garment rows.
C1_GarmentTableWithinPersonTable ==
    \A i \in DOMAIN excel_data :
        LET ws == excel_data[i]
            persons == PersonRowsOf(workbook[i])
            garments == GarmentRowsOf(workbook[i])
            kept == IF Cardinality(garments) >= Cardinality(persons)
                    THEN Cardinality(persons) ELSE Cardinality(garments)
        IN  ~ws.uniform_data.isNone =>
                /\ Len(ws.data.rows) = Cardinality(persons)
                /\ Len(ws.uniform_data.rows) <= Len(ws.data.rows)
                /\ Len(ws.uniform_data.rows) = kept
                /\ \A k \in 1..kept :
                      /\ ws.uniform_data.rows[k].src = NthRow(garments, k)
                      /\ ws.uniform_data.rows[k].name = k - 1
                      /\ \A j \in DOMAIN UNIFORM_COLUMN_NAMES :
                            ws.uniform_data.rows[k].cells[j] =
                                Cell(workbook[i], NthRow(garments, k),
                                     UNIFORM_DATA_START_COLUMN + j - 1)

\* C1 witness: a loaded sheet with more non-empty garment rows than
\* non-empty person rows, at least one person, whose garment table was cut
\* to the person count.
C1_Witness ==
    /\ op = "load_excel_file"
    /\ \E i \in DOMAIN excel_data :
          /\ ~excel_data[i].uniform_data.isNone
          /\ Cardinality(PersonRowsOf(workbook[i])) >= 1
          /\ Cardinality(GarmentRowsOf(workbook[i]))
                > Cardinality(PersonRowsOf(workbook[i]))
          /\ Len(excel_data[i].uniform_data.rows)
                = Cardinality(PersonRowsOf(workbook[i]))

sFewerRows == <<"fewer", "rows">>

\* C2 (as stated): when the grid of a sheet with garment columns has fewer
\* non-empty garment rows than non-empty person rows, the parsing result
\* has a warning containing "fewer rows" and no such error, and the
\* contexts built for a person whose row index is at or beyond the garment
\* row count have an empty garment list and an amount of 0.
C2_FewerGarmentRowsLeaveNoGarments ==
    \A i \in DOMAIN excel_data :
        LET ws == excel_data[i]
            persons == PersonRowsOf(workbook[i])
            garments == GarmentRowsOf(workbook[i])
        IN  (/\ ~ws.data.isNone
             /\ workbook[i].ncols > UNIFORM_DATA_END_COLUMN
             /\ Cardinality(garments) < Cardinality(persons))
            => /\ \E w \in DOMAIN ws.warnings :
                     Contains(sFewerRows, ws.warnings[w].fmt)
               /\ \A e \in DOMAIN ws.errors :
                     ~Contains(sFewerRows, ws.errors[e].fmt)
               /\ (/\ contextCall.valid
                   /\ contextCall.sheet = i
                   /\ contextCall.row - 1 >= Cardinality(garments))
                  => \A x \in DOMAIN contextCall.person_contexts :
                        LET context == contextCall.person_contexts[x].context
                        IN  /\ CtxGet(context, "prendas", <<>>) = <<>>
                            /\ context["monto"].amount = 0

\* C27 (as stated): in every parsed sheet, the garment row handed to a
\* person (the row of the garment table at the person's index, when there
\* is one) was read from the spreadsheet row the person was read from.
C27_GarmentRowOfSamePerson ==
    op = "load_excel_file" =>
        \A i \in DOMAIN excel_data :
            LET ws == excel_data[i]
            IN  (~ws.data.isNone /\ ~ws.uniform_data.isNone) =>
                    \A k \in DOMAIN ws.data.rows :
                        ws.data.rows[k].name < Len(ws.uniform_data.rows)
                            => ws.uniform_data.rows[ws.data.rows[k].name + 1].src
                                   = ws.data.rows[k].src

----------------------------------------------------------------------------
(* Claims about generate_files *)

NoKindEnabled(options) ==
    ~options.isNone /\ ~options.autorizacion_enabled /\ ~options.cargo_enabled

\* The destination root exists or can be created
DestinationCreatable(files0, env) ==
    env.creatable \/ Exists(files0, destination_path)

C7_NoKindEnabledMessage ==
    (/\ op = "generate_files"
     /\ IsLoaded(excel_data)
     /\ NoKindEnabled(genCall.options)
     /\ genCall.env.validator # "errors"
     /\ genCall.env.creatable
     /\ genCall.env.docxtpl)
    => /\ ~genResult.success
       /\ genResult.files_generated = 0
       /\ genResult.message = MsgNoTemplatesSelected

\* Every precondition-level check of the call passed
PreconditionsPassed ==
    /\ IsLoaded(excel_data)
    /\ genCall.env.validator = "none"
    /\ DestinationCreatable(disk, genCall.env)
    /\ ~NoKindEnabled(genCall.options)
    /\ genCall.env.docxtpl

\* C8 (as stated): the result of generate_files has success = true if and
\* only if every precondition-level check passed.
C8_SuccessIffPreconditions ==
    op = "generate_files" => (genResult.success <=> PreconditionsPassed)

\* The location cell of a sheet is empty or holds only blanks
IsBlankLocation(sd) ==
    LET tienda == Cell(sd, METADATA_ROW_TIENDA, METADATA_COL_TIENDA)
    IN  tienda = NaN \/ \A k \in DOMAIN tienda : tienda[k] = " "

\* The trimmed location of a sheet with a location
TrimmedLocation(sd) == Strip(Cell(sd, METADATA_ROW_TIENDA, METADATA_COL_TIENDA))

RECURSIVE SumOver(_, _)
SumOver(f, S) ==
    IF S = {} THEN 0
    ELSE LET x == CHOOSE y \in S : TRUE IN f[x] + SumOver(f, S \ {x})

\* The number of people of the sheets in S
PeopleOf(S) ==
    SumOver([i \in DOMAIN workbook |-> Cardinality(PersonRowsOf(workbook[i]))], S)

\* C9: after any generate_files call, options given or omitted, no location
\* group has an empty or blank key, a group holds no more people than the
\* sheets with that (trimmed, non-blank) location have, and everything on
\* disk below the destination root lies in the folder of the location of a
\* sheet whose location is not blank.
C9_BlankLocationExcluded ==
    genCall.valid =>
        /\ \A g \in DOMAIN genGroups :
              /\ Strip(genGroups[g].tienda) # <<>>
              /\ Len(genGroups[g].people)
                    <= PeopleOf({i \in DOMAIN workbook :
                                   /\ ~IsBlankLocation(workbook[i])
                                   /\ TrimmedLocation(workbook[i])
                                         = genGroups[g].tienda})
        /\ \A e \in disk :
              \/ e.path = destination_path
              \/ /\ Len(e.path) > Len(destination_path)
                 /\ \E i \in DOMAIN workbook :
                       /\ ~IsBlankLocation(workbook[i])
                       /\ e.path[Len(destination_path) + 1]
                             = SanitizeName(TrimmedLocation(workbook[i]))

\* C9 witness: a file with a sheet whose location is empty or blank and has
\* a person, next to a store's sheet; the call selected the empty and the
\* blank location too; it succeeded and documents were written.
C9_Witness ==
    /\ op = "generate_files"
    /\ genResult.success /\ genResult.files_generated > 0
    /\ \E i \in DOMAIN workbook :
          /\ IsBlankLocation(workbook[i])
          /\ Cardinality(PersonRowsOf(workbook[i])) > 0
    /\ \E i \in DOMAIN workbook : ~IsBlankLocation(workbook[i])
    /\ InList(<<>>, genCall.options.selected_locales)
    /\ InList(sBlank, genCall.options.selected_locales)
    /\ \E e \in disk : e.kind = "file"

sMissingDni == <<"missing", "DNI">>

\* The sheet has the error that rows with data lack their DNI
HasMissingDniError(ws) ==
    \E e \in DOMAIN ws.errors : Contains(sMissingDni, ws.errors[e].fmt)

\* C10 (as stated): when generate_files generates, a sheet with a
\* missing-DNI error contributes no person to any location group (a group
\* holds no more people than the sheets of that location without such an
\* error have) and its error is in the errors of the generation result.
C10_MissingDniSheetExcluded ==
    (op = "generate_files" /\ genResult.success) =>
        /\ \A g \in DOMAIN genGroups :
              Len(genGroups[g].people)
                 <= PeopleOf({i \in DOMAIN workbook :
                                /\ ~HasMissingDniError(excel_data[i])
                                /\ ~IsBlankLocation(workbook[i])
                                /\ TrimmedLocation(workbook[i]) = genGroups[g].tienda})
        /\ \A i \in DOMAIN excel_data : \A e \in DOMAIN excel_data[i].errors :
              Contains(sMissingDni, excel_data[i].errors[e].fmt)
                 => InList(excel_data[i].errors[e], genResult.errors)

----------------------------------------------------------------------------
(* Claims about loading a file *)

\* The parsing of the sheet raises: the read fails, or the person table has
\* two columns with the label of its DNI column
SheetThrows(sheet) ==
    \/ ~sheet.readable
    \/ /\ sheet.grid.nrows > DATA_START_ROW
       /\ \E j, k \in (IGNORE_COLUMN_INDEX + 1)..MAIN_DATA_END_COLUMN :
             /\ j # k
             /\ Cell(sheet.grid, DATA_START_ROW, j) = Cell(sheet.grid, DATA_START_ROW, k)
             /\ Contains(sdni, Lower(Str(Cell(sheet.grid, DATA_START_ROW, j))))
             /\ \A c \in (IGNORE_COLUMN_INDEX + 1)..(Min(j, k) - 1) :
                   ~Contains(sdni, Lower(Str(Cell(sheet.grid, DATA_START_ROW, c))))

Count(msgs, m) == Cardinality({k \in DOMAIN msgs : msgs[k] = m})

\* The three metadata values: the cell of each and the warning naming it
MetadataFields ==
    {[r |-> METADATA_ROW_FECHA_SOLICITUD, c |-> METADATA_COL_FECHA_SOLICITUD,
      warning |-> MsgMissingFecha],
     [r |-> METADATA_ROW_TIENDA, c |-> METADATA_COL_TIENDA,
      warning |-> MsgMissingTienda],
     [r |-> METADATA_ROW_ADMINISTRADOR, c |-> METADATA_COL_ADMINISTRADOR,
      warning |-> MsgMissingAdministrador]}

\* The value of field f is missing from its cell in the grid, the cell
\* being empty or beyond the last row or column of the grid
ValueMissing(grid, f) == <<f.r, f.c>> \notin DOMAIN grid.cells

Max(a, b) == IF a >= b THEN a ELSE b

\* The grid with the three metadata cells filled in
WithMetadata(grid) ==
    [grid EXCEPT
        !.nrows = Max(@, METADATA_ROW_ADMINISTRADOR + 1),
        !.ncols = Max(@, METADATA_COL_ADMINISTRADOR + 1),
        !.cells = [rc \in {<<f.r, f.c>> : f \in MetadataFields} |-> sAdmin] @@ @]

\* C18: in the result of every sheet that was read, each of the three
\* metadata values missing from its cell, also when the grid ends before
\* the cell, has exactly one warning naming it, a value that is there has
\* none, no error names a metadata value, and the errors are those of the
\* same sheet with the three values filled in.
C18_MissingMetadataWarns ==
    (loadCall.valid /\ ~loadCall.raised) =>
        \A i \in DOMAIN loadCall.file.sheets :
            loadCall.file.sheets[i].readable =>
                LET grid == loadCall.file.sheets[i].grid
                IN  /\ \A f \in MetadataFields :
                          /\ Count(excel_data[i].warnings, f.warning)
                                = IF ValueMissing(grid, f) THEN 1 ELSE 0
                          /\ Count(excel_data[i].errors, f.warning) = 0
                    /\ excel_data[i].errors = ParseWorksheet(WithMetadata(grid)).errors

\* A sheet was read whose grid ends before the administrator's row and
\* has the request date: it has the two warnings of the values beyond its
\* end; the sheet has an error from its two DNI columns or none at all
C18_Witness ==
    /\ loadCall.valid /\ ~loadCall.raised
    /\ loadCall.file.sheets[1].readable
    /\ workbook[1].nrows = METADATA_ROW_FECHA_SOLICITUD + 1
    /\ Len(excel_data[1].warnings) >= 2
    /\ Count(excel_data[1].warnings, MsgMissingTienda) = 1
    /\ Count(excel_data[1].warnings, MsgMissingAdministrador) = 1
    /\ excel_data[1].errors = <<>>

\* The columns of the person table whose header contains the DNI key
DniHeaderColumns(sd) ==
    {c \in (IGNORE_COLUMN_INDEX + 1)..Min(MAIN_DATA_END_COLUMN, sd.ncols - 1) :
        Contains(sdni, Lower(Str(Cell(sd, DATA_START_ROW, c))))}

\* The cleaned person rows of the grid without a value in the first of
\* the columns whose header contains the DNI key
RowsWithoutDni(sd) ==
    LET c == CHOOSE j \in DniHeaderColumns(sd) :
                 \A k \in DniHeaderColumns(sd) : j <= k
    IN  {r \in PersonRowsOf(sd) : Cell(sd, r, c) = NaN}

\* C19 (as stated): for every sheet with a header row, when a header
\* contains the DNI key the result has an error exactly when a cleaned
\* person row has no DNI, and the person table is kept with every cleaned
\* row, those without DNI included; when no header contains the key the
\* result has the warning that DNI cannot be validated and no error.
C19_DniCheckNeverSilent ==
    op = "load_excel_file" =>
        \A i \in DOMAIN excel_data :
            workbook[i].nrows > DATA_START_ROW =>
                IF DniHeaderColumns(workbook[i]) # {}
                THEN /\ (excel_data[i].errors # <<>>)
                          <=> (RowsWithoutDni(workbook[i]) # {})
                     /\ ~excel_data[i].data.isNone
                     /\ {excel_data[i].data.rows[k].src :
                              k \in DOMAIN excel_data[i].data.rows}
                           = PersonRowsOf(workbook[i])
                ELSE /\ Count(excel_data[i].warnings, MsgNoDniColumn) = 1
                     /\ excel_data[i].errors = <<>>

----------------------------------------------------------------------------
(* Claims about failures during generation *)

\* The documents the last generate_files call had to render: a document
\* per sheet that is grouped, person and enabled kind, with the locale,
\* the name, the occupation, the kind, the path and the context
DocumentsDue ==
    LET options == EffectiveOptions(excel_data, genCall.options)
    IN  UNION {UNION {
            {[tienda |-> LocaleKey(excel_data[i]),
              nombre |-> CtxGet(c.context, "nombre", <<>>),
              cargo |-> ExtractCommonPersonData(RowOf(excel_data[i].data, r)).cargo,
              template_type |-> c.template_type,
              path |-> DocumentPath(
                          PersonFolder(TiendaFolder(destination_path,
                                                    LocaleKey(excel_data[i])),
                                       CtxGet(c.context, "nombre", <<>>)),
                          c.template_type, c.context),
              content |-> c] :
                c \in {BuildPersonContexts(catalog, RowOf(excel_data[i].data, r),
                                           excel_data[i], options)[x] :
                          x \in 1..Len(GetEnabledTemplates(options))}} :
            r \in DOMAIN excel_data[i].data.rows} :
        i \in {j \in DOMAIN excel_data : SheetIsGrouped(excel_data[j], options)}}

\* The building or the rendering of the document raised
DocumentFailed(d) ==
    \/ <<d.nombre, d.template_type>> \in genCall.env.faults.unbuilt
    \/ <<d.nombre, d.template_type>> \in genCall.env.faults.unrendered
    \/ d.template_type \in genCall.env.failing

\* The last generate_files call got as far as rendering
Rendering ==
    /\ genCall.valid
    /\ genCall.env.validator = "none" /\ genCall.env.creatable
    /\ genCall.env.docxtpl
    /\ genGroups # <<>>

\* The path of the combined document of a locale and a kind
CombinedPath(tienda, template_type) ==
    Join(TiendaFolder(destination_path, tienda),
         template_type \o sCombined \o SanitizeName(tienda) \o sDocx)

\* C12: with combine_per_local, when the composition of one locale and
\* kind raises, the run still succeeds, every document rendered is on disk
\* with the content rendered, and every other locale and kind with
\* rendered documents has its combined document, made of those documents.
C12_MergeFailureContained ==
    (Rendering /\ genCall.options.combine_per_local) =>
        /\ genResult.success
        /\ \A d \in DocumentsDue :
              ~DocumentFailed(d) => File(d.path, d.content) \in disk
        /\ \A d \in DocumentsDue :
              (/\ ~DocumentFailed(d)
               /\ <<d.tienda, d.template_type>> \notin genCall.env.faults.unmerged)
              => \E e \in disk :
                    /\ e.path = CombinedPath(d.tienda, d.template_type)
                    /\ e.kind = "file"
                    /\ {e.content[k] : k \in DOMAIN e.content}
                          = {o.content : o \in {x \in DocumentsDue :
                                /\ ~DocumentFailed(x)
                                /\ x.tienda = d.tienda
                                /\ x.template_type = d.template_type}}

\* A composition of the first locale raised and nothing was saved for it,
\* while the other kind of that locale and a kind of the second locale
\* have their combined documents
C12_Witness ==
    /\ Rendering /\ genCall.options.combine_per_local
    /\ Len(genGroups) = 2
    /\ <<genGroups[1].tienda, sAUTORIZACION>> \in genCall.env.faults.unmerged
    /\ ~genCall.env.faults.fallback
    /\ \E d \in DocumentsDue :
          /\ d.tienda = genGroups[1].tienda /\ d.template_type = sAUTORIZACION
          /\ ~DocumentFailed(d)
    /\ ~Exists(disk, CombinedPath(genGroups[1].tienda, sAUTORIZACION))
    /\ Exists(disk, CombinedPath(genGroups[1].tienda, sCARGO))
    /\ Exists(disk, CombinedPath(genGroups[2].tienda, sAUTORIZACION))

\* C13: when the building or the rendering of one kind raises for one
\* person, that document is not written, and every other document due,
\* of that person and of every other person of the grouped sheets, is
\* written with its context; the run succeeds.
C13_PersonFailureContained ==
    Rendering =>
        /\ genResult.success
        /\ \A d \in DocumentsDue :
              IF DocumentFailed(d) THEN ~Exists(disk, d.path)
              ELSE File(d.path, d.content) \in disk

\* The render of one kind raised for a person whose other kind is on disk,
\* as are both kinds of another person
C13_Witness ==
    /\ Rendering
    /\ \E d \in DocumentsDue :
          /\ <<d.nombre, d.template_type>> \in genCall.env.faults.unrendered
          /\ ~Exists(disk, d.path)
          /\ \E o \in DocumentsDue :
                /\ o.nombre = d.nombre /\ o.template_type # d.template_type
                /\ File(o.path, o.content) \in disk
          /\ \E o \in DocumentsDue :
                /\ o.nombre # d.nombre /\ o.template_type = d.template_type
                /\ File(o.path, o.content) \in disk

\* The composition of the combined document of a locale and a kind with
\* rendered documents raised in the last call
MergeFailed(tienda, template_type) ==
    /\ genCall.options.combine_per_local
    /\ <<tienda, template_type>> \in genCall.env.faults.unmerged
    /\ \E d \in DocumentsDue :
          /\ d.tienda = tienda /\ d.template_type = template_type
          /\ ~DocumentFailed(d)

\* C20 (as stated): after a run that got as far as rendering,
\* files_generated is the number of files the run wrote, and when the
\* building or the rendering of a document, or the composition of a
\* combined document, raised, the errors list of the result is not empty.
C20_FailuresReported ==
    Rendering =>
        /\ genResult.files_generated
              = Cardinality({e \in disk : e.kind = "file"})
        /\ (\/ \E d \in DocumentsDue : DocumentFailed(d)
            \/ \E d \in DocumentsDue : MergeFailed(d.tienda, d.template_type))
           => genResult.errors # <<>>

----------------------------------------------------------------------------
(* Claims about folder creation *)

\* Something that is not a directory stands at the path or above it
FileInTheWay(path) ==
    \E e \in disk : /\ e.kind = "file"
                     /\ Len(e.path) <= Len(path)
                     /\ SubSeq(path, 1, Len(e.path)) = e.path

\* The steps of the worker before its position are done: the folders are
\* directories and the documents rendered are files
StepsDone(me) ==
    \A k \in 1..(me.pc - 1) :
        IF me.plan[k].kind = "mkdir" THEN Dir(me.plan[k].path) \in disk
        ELSE \E e \in disk : e.path = me.plan[k].path /\ e.kind = "file"

\* C21: a mkdir call of a worker raises only when something that is not a
\* directory stands at the path or above it, never because the folder is
\* there already; whatever the interleaving, the steps a worker has passed
\* left their folders and documents on disk, and a worker that has not
\* raised and has steps left can take its next step.
C21_FolderCreationIdempotent ==
    \A w \in DOMAIN workers :
        /\ workers[w].raised => FileInTheWay(Head(workers[w].stack).path)
        /\ StepsDone(workers[w])
        /\ Running(w) => (ENABLED MkdirStep(w) \/ ENABLED RenderStep(w))

\* Two workers of the same locale are through their plans; each of them
\* found a folder the other had created: one the destination, the other
\* the folder of the locale
C21_Witness ==
    /\ Len(workers) >= 2
    /\ workers[1].pc > Len(workers[1].plan) /\ workers[2].pc > Len(workers[2].plan)
    /\ workers[1].plan[2].path = workers[2].plan[2].path
    /\ destination_path \in workers[1].met
    /\ destination_path \notin workers[2].met
    /\ workers[2].plan[2].path \in workers[2].met
    /\ workers[1].plan[2].path \notin workers[1].met
    /\ StepsDone(workers[1]) /\ StepsDone(workers[2])

----------------------------------------------------------------------------
(* Claims about the amount *)

\* The quantity cell of garment column n in the spreadsheet row the person
\* row was read from
QuantityCell(sd, row, n) == Cell(sd, row.src, UNIFORM_DATA_START_COLUMN + n - 1)

\* The sum, over the garment types with a quantity greater than 0, of the
\* unit price for the type, the person's size, the resolved occupation and
\* the location of the sheet
SumOfUnitPrices(sd, ws, row) ==
    SumOver([n \in DOMAIN UNIFORM_COLUMN_NAMES |->
                IF IsPositiveQty(QuantityCell(sd, row, n))
                THEN GetPrice(catalog, Upper(UNIFORM_COLUMN_NAMES[n]),
                              ExtractTallaSuperior(RowOf(ws.data, row.name + 1)),
                              NormalizeOccupation(catalog,
                                  OrElse(FindInRow(RowOf(ws.data, row.name + 1),
                                                   <<scargo>>), sMOZO)),
                              ws.metadata.tienda)
                ELSE 0],
            DOMAIN UNIFORM_COLUMN_NAMES)

\* The sheet has a garment row for every person row, in the same
\* spreadsheet rows
GarmentRowsAligned(sd, ws) ==
    /\ ~ws.data.isNone /\ ~ws.uniform_data.isNone
    /\ Len(ws.uniform_data.rows) = Len(ws.data.rows)
    /\ \A k \in DOMAIN ws.data.rows :
          ws.uniform_data.rows[k].src = ws.data.rows[k].src

\* C14 (as stated): the amount of every context of a person with a garment
\* row is the sum, over the garment types with a quantity greater than 0,
\* of the unit price for the type, the person's size, the resolved
\* occupation and the location, whatever the quantities above 0 are.
C14_AmountIsSumOfUnitPrices ==
    (contextCall.valid
     /\ GarmentRowsAligned(workbook[contextCall.sheet], excel_data[contextCall.sheet]))
    => \A x \in DOMAIN contextCall.person_contexts :
          contextCall.person_contexts[x].context["monto"].amount
            = SumOfUnitPrices(workbook[contextCall.sheet],
                              excel_data[contextCall.sheet],
                              excel_data[contextCall.sheet].data
                                  .rows[contextCall.row])

\* The text of the occupation cell of the person the last contexts were
\* built for, without the blanks around it; empty when the cell is empty
\* or the sheet has no occupation column
OccupationText ==
    LET sd == workbook[contextCall.sheet]
        row == excel_data[contextCall.sheet].data.rows[contextCall.row]
        cols == {c \in (IGNORE_COLUMN_INDEX + 1)..MAIN_DATA_END_COLUMN :
                    Contains(scargo, Lower(Str(Cell(sd, DATA_START_ROW, c))))}
    IN  IF cols = {} THEN <<>>
        ELSE LET cell == Cell(sd, row.src, CHOOSE c \in cols : \A d \in cols : c <= d)
             IN  IF cell = NaN THEN <<>> ELSE Strip(cell)

\* No entry of the catalog has the text as its name or as a synonym
Unresolved(text) ==
    \A i \in DOMAIN catalog : \A a \in Labels(catalog[i]) :
        Upper(a) # Upper(text)

\* The amount of the person of the last contexts at the prices of the
\* default occupation: the price of a shirt of the person's size group and
\* location group when the person has a shirt, 0 otherwise
AmountOfDefaultOccupation ==
    LET sd == workbook[contextCall.sheet]
        ws == excel_data[contextCall.sheet]
        row == ws.data.rows[contextCall.row]
        mozo == CHOOSE o \in {catalog[i] : i \in DOMAIN catalog} : o.name = sMOZO
        shirt == CHOOSE e \in {mozo.prendas[k] : k \in DOMAIN mozo.prendas} :
                     e.prenda_type = sCAMISA
    IN  IF QuantityCell(sd, row, 1) = NaN THEN 0
        ELSE shirt.price[<<SizePoint(Cell(sd, row.src, IGNORE_COLUMN_INDEX + 4)),
                           DetermineLocalGroup(Upper(ws.metadata.tienda))>>]

\* C24: when the occupation text of a person is empty or resolves to no
\* entry of the catalog, the amount of every context of the person is the
\* amount at the prices of the default occupation MOZO, and the occupation
\* in the AUTORIZACION context is the text of the person, not MOZO.
C24_UnresolvedOccupationPricedAsDefault ==
    (contextCall.valid /\ Unresolved(OccupationText)) =>
        \A x \in DOMAIN contextCall.person_contexts :
            /\ contextCall.person_contexts[x].context["monto"].amount
                  = AmountOfDefaultOccupation
            /\ contextCall.person_contexts[x].template_type = sAUTORIZACION
                  => contextCall.person_contexts[x].context["cargo"] = OccupationText

\* The contexts of a person with the occupation XYZ, which no entry has,
\* and a shirt: the amount is the price of the shirt of MOZO and the
\* AUTORIZACION context says XYZ
C24_Witness ==
    /\ contextCall.valid
    /\ OccupationText = sXYZ
    /\ Unresolved(OccupationText)
    /\ AmountOfDefaultOccupation > 0
    /\ \E x \in DOMAIN contextCall.person_contexts :
          /\ contextCall.person_contexts[x].template_type = sAUTORIZACION
          /\ contextCall.person_contexts[x].context["cargo"] = sXYZ
          /\ contextCall.person_contexts[x].context["monto"].amount
                = AmountOfDefaultOccupation

\* The lower-cased header of column c of the person table
HeaderKey(sd, c) == Lower(Str(Cell(sd, DATA_START_ROW, c)))

\* The columns of the person table whose header is a combined name
\* ("combined"), a first name and not a last name ("first"), or a last
\* name and not a first name ("last")
ColumnsWith(sd, part) ==
    {c \in (IGNORE_COLUMN_INDEX + 1)..MAIN_DATA_END_COLUMN :
        /\ Cell(sd, DATA_START_ROW, c) # NaN
        /\ CASE part = "combined" -> IsCombinedNameKey(HeaderKey(sd, c))
              [] part = "first" -> /\ IsFirstNameKey(HeaderKey(sd, c))
                                   /\ ~IsLastNameKey(HeaderKey(sd, c))
              [] part = "last" -> /\ IsLastNameKey(HeaderKey(sd, c))
                                  /\ ~IsFirstNameKey(HeaderKey(sd, c))}

\* The text of the person's cell in the first of the columns, without the
\* blanks around it; empty when there is no column or the cell is empty
TextIn(sd, row, cols) ==
    IF cols = {} THEN <<>>
    ELSE LET cell == Cell(sd, row.src, CHOOSE c \in cols : \A d \in cols : c <= d)
         IN  IF cell = NaN THEN <<>> ELSE Strip(cell)

\* The person table has a combined name column, the person's cell in it
\* has a value, or it has a first-name or a last-name column
HasNameColumns(sd) ==
    \/ ColumnsWith(sd, "combined") # {}
    \/ ColumnsWith(sd, "first") # {}
    \/ ColumnsWith(sd, "last") # {}

\* The display name of the person: the value of the combined column when
\* there is one and it has a value, else the first name followed by the
\* last name
NameOfPerson(sd, row) ==
    IF TextIn(sd, row, ColumnsWith(sd, "combined")) # <<>>
    THEN TextIn(sd, row, ColumnsWith(sd, "combined"))
    ELSE Strip(TextIn(sd, row, ColumnsWith(sd, "first")) \o sSpace
               \o TextIn(sd, row, ColumnsWith(sd, "last")))

\* C25 (as stated): when the person table has a combined name column or
\* separate first-name and last-name columns, the name in every context
\* of a person is the value of the combined column when that has a value,
\* else the first name followed by the last name.
C25_DisplayName ==
    (contextCall.valid /\ HasNameColumns(workbook[contextCall.sheet])) =>
        \A x \in DOMAIN contextCall.person_contexts :
            contextCall.person_contexts[x].context["nombre"]
                = NameOfPerson(workbook[contextCall.sheet],
                              excel_data[contextCall.sheet].data.rows[contextCall.row])

\* The garment keys, by position, whose cell in the person's spreadsheet
\* row holds a number with an integer part greater than 0
KeysWithQuantity(sd, row) ==
    {n \in DOMAIN UNIFORM_COLUMN_NAMES :
        /\ QuantityCell(sd, row, n) # NaN
        /\ Cell(sd, DATA_START_ROW, UNIFORM_DATA_START_COLUMN + n - 1)
              = UNIFORM_COLUMN_NAMES[n]
        /\ IsNumber(Strip(QuantityCell(sd, row, n)))
        /\ IntOfFloat(Strip(QuantityCell(sd, row, n))) > 0}

\* The display label of a garment key: the key in capitals without its
\* PACKER or DELIVERY prefix, followed by the size unless it is one of the
\* one-size items
LabelOf(key, talla) ==
    LET name == Upper(key)
        bare == IF StartsWith(name, sPACKER)
                THEN SubSeq(name, Len(sPACKER) + 1, Len(name))
                ELSE IF StartsWith(name, sDELIVERY)
                THEN SubSeq(name, Len(sDELIVERY) + 1, Len(name))
                ELSE name
    IN  IF bare \in {sANDARIN, sMANDILON, sGORRA} THEN bare
        ELSE bare \o sTALLA \o talla

\* The garment list of the claim for the person of the last contexts
GarmentListOf(sd, row) ==
    LET keys == SortedSeq(KeysWithQuantity(sd, row))
        cell == Cell(sd, row.src, IGNORE_COLUMN_INDEX + 4)
        talla == IF cell = NaN THEN <<>> ELSE Upper(Strip(cell))
    IN  [x \in DOMAIN keys |->
            [string |-> LabelOf(UNIFORM_COLUMN_NAMES[keys[x]], talla),
             qty |-> IntOfFloat(Strip(QuantityCell(sd, row, keys[x]))),
             prenda_type |-> Upper(UNIFORM_COLUMN_NAMES[keys[x]])]]

\* C26 (as stated): building the contexts of a person with the CARGO kind
\* enabled gives a CARGO context whose garment list has, in the order of
\* the keys, exactly one entry for each garment key whose cell holds an
\* integer greater than 0 and none for an absent, empty, zero, negative or
\* unparseable cell, which never makes the building fail; the label of an
\* entry is the key without its PACKER or DELIVERY prefix, with the size
\* unless it is a one-size item, and its pricing key is the whole key.
C26_GarmentList ==
    (contextCall.valid /\ contextCall.options.cargo_enabled) =>
        \E x \in DOMAIN contextCall.person_contexts :
            /\ contextCall.person_contexts[x].template_type = sCARGO
            /\ contextCall.person_contexts[x].context["prendas"]
                  = GarmentListOf(workbook[contextCall.sheet],
                                  excel_data[contextCall.sheet].data
                                      .rows[contextCall.row])

----------------------------------------------------------------------------
(* Claims about repeated generation *)

\* The last generate_files call repeats the one before it, which started
\* from an empty destination: the same parsed sheets, options and faults,
\* no combined documents
RunRepeated ==
    /\ runs = 2
    /\ genCall.valid /\ prevGen.call.valid
    /\ genCall.options = prevGen.call.options
    /\ genCall.env = prevGen.call.env
    /\ genCall.sheets = prevGen.call.sheets
    /\ ~genCall.options.combine_per_local

\* What the repeated call leaves is what the call before it left
SameOutput ==
    /\ disk = prevGen.disk
    /\ genResult.files_generated = prevGen.result.files_generated

----------------------------------------------------------------------------
(* Claims about the layout of the output *)

\* destination_root/<location>/<person>/<KIND>_<person>_<occupation>.docx
LayoutPath(tienda, nombre, cargo, template_type) ==
    Join(Join(Join(destination_path, SanitizeName(tienda)), SanitizeName(nombre)),
         template_type \o <<"_">> \o SanitizeName(nombre) \o <<"_">>
         \o SanitizeName(cargo) \o sDocx)

\* C16 (as stated): every file a run leaves is an individually rendered
\* file at destination_root/<location>/<person>/
\* <KIND>_<person>_<occupation>.docx of a document due, whatever its kind,
\* or a combined file at
\* destination_root/<location>/<KIND>_COMBINED_<location>.docx.
C16_FileLayout ==
    Rendering =>
        \A e \in disk :
            e.kind = "file" =>
                \/ \E d \in DocumentsDue :
                      e.path = LayoutPath(d.tienda, d.nombre, d.cargo, d.template_type)
                \/ /\ genCall.options.combine_per_local
                   /\ \E d \in DocumentsDue :
                         e.path = CombinedPath(d.tienda, d.template_type)

----------------------------------------------------------------------------
(* Claims about a whole run *)

\* The cells of a person row in the documented layout
CargoCell(sd, r) == Cell(sd, r, IGNORE_COLUMN_INDEX + 1)
NameCell(sd, r) == Cell(sd, r, IGNORE_COLUMN_INDEX + 2)
SizeCell(sd, r) == Cell(sd, r, IGNORE_COLUMN_INDEX + 4)

\* The people with a name in the sheets whose location is selected, each
\* as <<sheet, spreadsheet row>>
NamedPeople ==
    {p \in UNION {{<<i, r>> : r \in PersonRowsOf(workbook[i])} :
                     i \in DOMAIN workbook} :
        /\ ~IsBlankLocation(workbook[p[1]])
        /\ InList(TrimmedLocation(workbook[p[1]]), genCall.options.selected_locales)
        /\ NameCell(workbook[p[1]], p[2]) # NaN}

\* destination/<location>/<person>/ of a person
FolderOf(p) ==
    <<sOutput, SanitizeName(TrimmedLocation(workbook[p[1]])),
      SanitizeName(NameCell(workbook[p[1]], p[2]))>>

\* The size group of a size: S/M/L for S, M and L, XL for XL, XXL for XXL
OwnSizeGroup(size) ==
    IF size \in {sS, sM, sL} THEN "sml"
    ELSE IF size = sXL THEN "xl" ELSE "xxl"

\* The price of a shirt for the person's size group, occupation and
\* location
ShirtPrice(p) ==
    LET occupation == GetOccupation(catalog, CargoCell(workbook[p[1]], p[2]))
        shirt == occupation.prendas[FirstPrenda(occupation.prendas, sCAMISA)]
    IN  shirt.price[<<OwnSizeGroup(SizeCell(workbook[p[1]], p[2])),
                      DetermineLocalGroup(TrimmedLocation(workbook[p[1]]))>>]

\* The documents on disk in the folder of a person
DocumentsIn(folder) ==
    {e \in disk : /\ e.kind = "file"
                  /\ Len(e.path) = Len(folder) + 1
                  /\ SubSeq(e.path, 1, Len(folder)) = folder}

\* The last call passed its preconditions with one kind enabled, no
\* combined documents and nothing failing, and the destination held
\* nothing before it
ScenarioRun ==
    /\ op = "generate_files"
    /\ prevGen.disk = {}
    /\ PreconditionsPassed
    /\ ~genCall.options.isNone
    /\ genCall.options.cargo_enabled # genCall.options.autorizacion_enabled
    /\ ~genCall.options.combine_per_local
    /\ genCall.env.failing = {} /\ genCall.env.faults = NoFaults

\* The person has a document of their own: one document in their folder,
\* with the price of a shirt for their size group as amount
HasOwnDocument(p) ==
    /\ Cardinality(DocumentsIn(FolderOf(p))) = 1
    /\ \A e \in DocumentsIn(FolderOf(p)) :
          e.content.context["monto"].amount = ShirtPrice(p)

----------------------------------------------------------------------------
(* Claims about validate_excel_data *)

\* C30 (as stated): a validate_excel_data call does not raise, its
\* is_valid is true exactly when a sheet of the loaded data has a person
\* table, and every error and warning of every sheet is in its errors or
\* warnings with the name of the sheet in front.
C30_ValidationNeverRaises ==
    op = "validate_excel_data" =>
        /\ ~validateCall.raised
        /\ validateCall.is_valid
              <=> \E i \in DOMAIN excel_data : ~excel_data[i].data.isNone
        /\ \A i \in DOMAIN excel_data :
              /\ \A k \in DOMAIN excel_data[i].errors :
                    InList(SheetPrefixed(excel_data[i].metadata.sheet_name,
                                         excel_data[i].errors[k]),
                           validateCall.errors)
              /\ \A k \in DOMAIN excel_data[i].warnings :
                    InList(SheetPrefixed(excel_data[i].metadata.sheet_name,
                                         excel_data[i].warnings[k]),
                           validateCall.warnings)

----------------------------------------------------------------------------
(* Claims about omitted options and the file count *)

\* The sheets with the trimmed location of sheet i
SheetsOfLocation(i) ==
    {j \in DOMAIN workbook :
        /\ ~IsBlankLocation(workbook[j])
        /\ TrimmedLocation(workbook[j]) = TrimmedLocation(workbook[i])}

\* The kinds of the contexts of a person of a group
KindsOf(person_contexts) ==
    {person_contexts[x].template_type : x \in DOMAIN person_contexts}

\* C29 (as stated): after a generate_files call without options that
\* passed its preconditions, every sheet with a non-blank location and a
\* person row has its people in the group of its trimmed location, each
\* with a context of both kinds.
C29_OmittedOptionsSelectEveryLocation ==
    (op = "generate_files" /\ genCall.options.isNone /\ PreconditionsPassed)
    => \A i \in DOMAIN workbook :
          (~IsBlankLocation(workbook[i]) /\ PersonRowsOf(workbook[i]) # {})
          => \E g \in DOMAIN genGroups :
                /\ genGroups[g].tienda = TrimmedLocation(workbook[i])
                /\ Len(genGroups[g].people) = PeopleOf(SheetsOfLocation(i))
                /\ \A q \in DOMAIN genGroups[g].people :
                      KindsOf(genGroups[g].people[q]) = {sAUTORIZACION, sCARGO}

\* C28 (as stated): after a run of generate_files into a destination that
\* held nothing, files_generated is the number of distinct files under the
\* destination, whoever shares a folder and file name and whatever merge
\* failed.
C28_FilesGeneratedIsFilesWritten ==
    (op = "generate_files" /\ genCall.valid /\ prevGen.disk = {})
    => genResult.files_generated
           = Cardinality({e \in disk : e.kind = "file"})

\* No other person of the run has the same folder
FolderIsOwn(p) == \A q \in NamedPeople : FolderOf(q) = FolderOf(p) => q = p

====
